---------------------------- MODULE Spec2Model ----------------------------
(***************************************************************************)
(* CognitiveScrum: the Plan Extractor (src/src/utils.py,                   *)
(* parse_sprint_plan_output), the Interview Loop                           *)
(* (src/src/agents/interview_agent.py, InterviewerAgent.generate_question),*)
(* the session of src/main.py with its Context Store                       *)
(* (src/src/db_handler.py) and the planning crew                           *)
(* (src/src/agents/cognitive_crew.py).                                     *)
(*                                                                         *)
(* Python strings are modelled as sequences of one-character strings, so   *)
(* that split, strip, lower, substring search, int() and the regular       *)
(* expression of the fallback tier are computed character by character.    *)
(* Python list indices are 0-based in the source; the model keeps the      *)
(* 0-based line numbers of the scan (they enter its arithmetic) and uses   *)
(* 1-based column indices with 0 standing for None.                        *)
(***************************************************************************)
EXTENDS Integers, Sequences, FiniteSets, TLC

VARIABLES
    pc,             \* position of the call under study: "start" or "done"
    inp,            \* the structured description of the input of the call
    plan_text,      \* parse_sprint_plan_output: its argument
    df,             \* parse_sprint_plan_output: the returned DataFrame
    raised,         \* whether the call under study raised to its caller
    chat_history,   \* generate_question: its chat_history argument
    oracle,         \* generate_question: what self.llm.invoke(prompt) does
    result,         \* generate_question: the returned dict
    session,        \* main.py: the other fields of st.session_state
    store,          \* DBHandler: the three collections of the Context Store
    op,             \* main.py: the operation of the last script run, its outcome
    callers         \* DBHandler: the callers that are inside an add method

vars == <<pc, inp, plan_text, df, raised, chat_history, oracle, result,
          session, store, op, callers>>

---------------------------------------------------------------------------
(* Python str primitives on sequences of characters.                       *)

UpperChars == <<"A","B","C","D","E","F","G","H","I","J","K","L","M",
                "N","O","P","Q","R","S","T","U","V","W","X","Y","Z">>

LowerChars == <<"a","b","c","d","e","f","g","h","i","j","k","l","m",
                "n","o","p","q","r","s","t","u","v","w","x","y","z">>

DigitChars == <<"0","1","2","3","4","5","6","7","8","9">>

Range(s) == {s[i] : i \in DOMAIN s}

UpperSet == Range(UpperChars)
LowerSet == Range(LowerChars)
DigitSet == Range(DigitChars)
LetterSet == UpperSet \cup LowerSet
SpaceSet == {" ", "\n", "\t", "\r"}

IsAlnum(c) == c \in LetterSet \cup DigitSet

LowerChar(c) ==
    IF c \in UpperSet
    THEN LowerChars[CHOOSE i \in DOMAIN UpperChars : UpperChars[i] = c]
    ELSE c

UpperChar(c) ==
    IF c \in LowerSet
    THEN UpperChars[CHOOSE i \in DOMAIN LowerChars : LowerChars[i] = c]
    ELSE c

\* str.lower()
Lower(s) == [i \in DOMAIN s |-> LowerChar(s[i])]

\* str.upper()
Upper(s) == [i \in DOMAIN s |-> UpperChar(s[i])]

\* s[i:j] of Python for 0 <= i, with the 0-based half-open bounds
Slice(s, i, j) == SubSeq(s, i + 1, IF j < Len(s) THEN j ELSE Len(s))

\* sub in s
Contains(s, sub) ==
    \E i \in 0..(Len(s) - Len(sub)) : SubSeq(s, i + 1, i + Len(sub)) = sub

\* s.startswith(sub)
StartsWith(s, sub) == Len(sub) <= Len(s) /\ SubSeq(s, 1, Len(sub)) = sub

\* s.strip()
Strip(s) ==
    LET keep == {i \in DOMAIN s : s[i] \notin SpaceSet}
    IN  IF keep = {} THEN <<>>
        ELSE LET lo == CHOOSE i \in keep : \A j \in keep : i <= j
                 hi == CHOOSE i \in keep : \A j \in keep : j <= i
             IN  SubSeq(s, lo, hi)

\* s.split(c) for a one-character separator c
RECURSIVE Split(_, _)
Split(s, c) ==
    IF \A i \in DOMAIN s : s[i] # c THEN <<s>>
    ELSE LET i == CHOOSE k \in DOMAIN s : s[k] = c /\ \A j \in 1..(k - 1) : s[j] # c
         IN  <<SubSeq(s, 1, i - 1)>> \o Split(SubSeq(s, i + 1, Len(s)), c)

\* sep.join(parts)
RECURSIVE Join(_, _)
Join(parts, sep) ==
    IF parts = <<>> THEN <<>>
    ELSE IF Len(parts) = 1 THEN parts[1]
    ELSE parts[1] \o sep \o Join(Tail(parts), sep)

\* s.replace(old, "") : every non-overlapping occurrence of old, left to right
RECURSIVE Remove(_, _)
Remove(s, old) ==
    IF s = <<>> THEN <<>>
    ELSE IF StartsWith(s, old) THEN Remove(SubSeq(s, Len(old) + 1, Len(s)), old)
    ELSE <<s[1]>> \o Remove(Tail(s), old)


---------------------------------------------------------------------------
(* parse_sprint_plan_output, lines 147-190: the line scan.                 *)

PIPE == <<"|">>
SPACE == <<" ">>
NL == "\n"

NA == <<"N","/","A">>
SeeFullReport == <<"S","e","e"," ","f","u","l","l"," ","r","e","p","o","r","t">>
SeeFullReportBelow ==
    <<"S","e","e"," ","f","u","l","l"," ","r","e","p","o","r","t"," ","b","e","l","o","w">>

Task_ID == <<"T","a","s","k","_","I","D">>
Assignee == <<"A","s","s","i","g","n","e","e">>
Estimated_Hours == <<"E","s","t","i","m","a","t","e","d","_","H","o","u","r","s">>
Risk_Level == <<"R","i","s","k","_","L","e","v","e","l">>
Reasoning_Trace == <<"R","e","a","s","o","n","i","n","g","_","T","r","a","c","e">>

\* the column labels of the returned DataFrame (lines 286-292, 324)
Columns == <<Task_ID, Assignee, Estimated_Hours, Risk_Level, Reasoning_Trace>>

\* line 156
HeaderKeywords ==
    { <<"t","a","s","k","_","i","d">>,
      <<"a","s","s","i","g","n","e","e">>,
      <<"e","s","t","i","m","a","t","e","d","_","h","o","u","r","s">>,
      <<"r","i","s","k","_","l","e","v","e","l">>,
      <<"r","e","a","s","o","n","i","n","g","_","t","r","a","c","e">> }

\* line 174
ScanKeywords ==
    { <<"a","s","s","i","g","n","m","e","n","t",":">>,
      <<"e","s","t","i","m","a","t","e",":">>,
      <<"r","i","s","k",":">>,
      <<"*","*">> }

ContinuationWindow == 5
CloseWindow == 2

HasPipe(line) == Contains(line, PIPE)

\* lines 176-177 and 180-181: attach the stripped line to the last captured row
AttachToLast(rows, line_stripped) ==
    [rows EXCEPT ![Len(rows)] =
        [line |-> rows[Len(rows)].line \o SPACE \o line_stripped,
         idx  |-> rows[Len(rows)].idx]]

\* One iteration of the loop of line 151: st is (in_table_section,
\* table_row_indices), i the 0-based line number.
ScanStep(st, line, i) ==
    LET line_lower    == Strip(Lower(line))
        line_stripped == Strip(line)
        captured      == [in_table_section |-> TRUE,
                          rows |-> Append(st.rows, [line |-> line, idx |-> i])]
        closed        == [st EXCEPT !.in_table_section = FALSE]
    IN  IF (\E keyword \in HeaderKeywords : Contains(line_lower, keyword))
           /\ HasPipe(line)
        THEN captured
        ELSE IF ~st.in_table_section THEN st
        ELSE IF HasPipe(line) /\ \E k \in DOMAIN line : IsAlnum(line[k])
        THEN [st EXCEPT !.rows = Append(st.rows, [line |-> line, idx |-> i])]
        ELSE IF line_stripped = <<>> THEN st
        ELSE IF ~HasPipe(line) /\ i > 0
        THEN IF st.rows # <<>>
             THEN LET last_row_idx == st.rows[Len(st.rows)].idx
                  IN  IF i - last_row_idx <= ContinuationWindow
                      THEN IF \E keyword \in ScanKeywords :
                                  Contains(Lower(line_stripped), keyword)
                           THEN [st EXCEPT !.rows = AttachToLast(st.rows, line_stripped)]
                           ELSE IF i - last_row_idx <= CloseWindow
                           THEN [st EXCEPT !.rows = AttachToLast(st.rows, line_stripped)]
                           ELSE st
                      ELSE closed
             ELSE closed
        ELSE closed

\* The scan of lines[1..n] (the loop of lines 151-190 after n iterations).
RECURSIVE ScanUpTo(_, _)
ScanUpTo(lines, n) ==
    IF n = 0 THEN [in_table_section |-> FALSE, rows |-> <<>>]
    ELSE ScanStep(ScanUpTo(lines, n - 1), lines[n], n - 1)

Scan(lines) == ScanUpTo(lines, Len(lines))

---------------------------------------------------------------------------
(* parse_sprint_plan_output, lines 192-297: the markdown-table tier.       *)

MinParts == 3
AssigneePrefix == 10
RescanSpan == 15
MaxReasoningLines == 5
LongLine == 50

SeparatorChars == {"-", ":", " "}

\* line 199: [p.strip() for p in ...]
StripAll(raw) == [k \in DOMAIN raw |-> Strip(raw[k])]

\* lines 201-202
DropEmptyFirst(parts) == IF parts # <<>> /\ parts[1] = <<>> THEN Tail(parts) ELSE parts

\* lines 203-204
DropEmptyLast(parts) ==
    IF parts # <<>> /\ parts[Len(parts)] = <<>>
    THEN SubSeq(parts, 1, Len(parts) - 1) ELSE parts

\* lines 199-204: split on | , strip each part, drop an empty first and last
Parts(line_data) == DropEmptyLast(DropEmptyFirst(StripAll(Split(line_data, "|"))))

\* line 208
IsSeparator(parts) ==
    \A k \in DOMAIN parts :
        Strip(parts[k]) = <<>>
        \/ \A j \in DOMAIN Strip(parts[k]) : Strip(parts[k])[j] \in SeparatorChars

\* lines 196-210: the cleaned lines of the captured rows
\* lines 206-210: the parts of one captured line, kept or dropped
KeptParts(parts) ==
    IF parts # <<>> /\ Len(parts) >= MinParts /\ ~IsSeparator(parts)
    THEN <<parts>> ELSE <<>>

RECURSIVE CleanedLines(_)
CleanedLines(rows) ==
    IF rows = <<>> THEN <<>>
    ELSE (IF HasPipe(rows[1].line) THEN KeptParts(Parts(rows[1].line)) ELSE <<>>)
         \o CleanedLines(Tail(rows))

\* lines 216-233: one header cell, cols the indices resolved so far (0 = None)
HeaderStep(cols, header, idx) ==
    LET header_lower == Lower(header)
        has(key)     == Contains(header_lower, key)
    IN  [task_col      |-> IF has(<<"t","a","s","k">>) /\ cols.task_col = 0
                           THEN idx ELSE cols.task_col,
         assignee_col  |-> IF has(<<"a","s","s","i","g","n">>) /\ cols.assignee_col = 0
                           THEN idx ELSE cols.assignee_col,
         hours_col     |-> IF has(<<"h","o","u","r">>) \/ has(<<"t","i","m","e">>)
                              \/ has(<<"e","s","t","i","m","a","t">>)
                           THEN idx ELSE cols.hours_col,
         risk_col      |-> IF has(<<"r","i","s","k">>) THEN idx ELSE cols.risk_col,
         reasoning_col |-> IF has(<<"r","e","a","s","o","n">>) \/ has(<<"t","r","a","c","e">>)
                           THEN idx ELSE cols.reasoning_col]

RECURSIVE ResolveUpTo(_, _)
ResolveUpTo(headers, n) ==
    IF n = 0
    THEN [task_col |-> 0, assignee_col |-> 0, hours_col |-> 0,
          risk_col |-> 0, reasoning_col |-> 0]
    ELSE HeaderStep(ResolveUpTo(headers, n - 1), headers[n], n)

ResolveColumns(headers) == ResolveUpTo(headers, Len(headers))

\* line 269
TaskRowPatterns ==
    { <<"s","1","-","t">>, <<"s","2","-","t">>, <<"s","3","-","t">>,
      <<"s","4","-","t">>, <<"s","5","-","t">>, <<"t","-">> }

\* line 273
ReasoningKeywords ==
    { <<"*","*","A","s","s","i","g","n","m","e","n","t",":","*","*">>,
      <<"*","*","E","s","t","i","m","a","t","e",":","*","*">>,
      <<"*","*","R","i","s","k",":","*","*">>,
      <<"A","s","s","i","g","n","m","e","n","t",":">>,
      <<"E","s","t","i","m","a","t","e",":">>,
      <<"R","i","s","k",":">> }

Min(a, b) == IF a < b THEN a ELSE b

\* lines 264-281: the loop over next_line_num (0-based) up to stop (exclusive),
\* reasoning_lines being what was collected so far
RECURSIVE CollectReasoning(_, _, _, _)
CollectReasoning(lines_list, next_line_num, stop, reasoning_lines) ==
    IF next_line_num >= stop THEN reasoning_lines
    ELSE LET next_line == Strip(lines_list[next_line_num + 1])
             go(rl)    == CollectReasoning(lines_list, next_line_num + 1, stop, rl)
         IN  IF HasPipe(next_line)
                /\ \E pattern \in TaskRowPatterns : Contains(Lower(next_line), pattern)
             THEN reasoning_lines
             ELSE IF next_line # <<>> /\ ~StartsWith(next_line, PIPE)
             THEN IF \E keyword \in ReasoningKeywords : Contains(next_line, keyword)
                  THEN go(Append(reasoning_lines, next_line))
                  ELSE IF Len(reasoning_lines) > 0
                  THEN IF Len(reasoning_lines) > MaxReasoningLines
                       THEN reasoning_lines
                       ELSE go(Append(reasoning_lines, next_line))
                  ELSE IF Len(next_line) > LongLine
                  THEN go(Append(reasoning_lines, next_line))
                  ELSE go(reasoning_lines)
             ELSE go(reasoning_lines)

\* lines 282-283
WithReasoning(reasoning_text, reasoning_lines) ==
    IF reasoning_lines # <<>>
    THEN Strip(reasoning_text \o SPACE \o Join(reasoning_lines, SPACE))
    ELSE reasoning_text

\* lines 263-283: the row was found at line_num (0-based)
RescanFrom(lines_list, line_num, reasoning_text) ==
    WithReasoning(reasoning_text,
        CollectReasoning(lines_list, line_num + 1,
                         Min(line_num + RescanSpan, Len(lines_list)), <<>>))

\* lines 260-261: the 1-based numbers of the lines that hold the row
RowLines(lines_list, task_id_val, assignee_val) ==
    {n \in DOMAIN lines_list :
        /\ Contains(lines_list[n], task_id_val)
        /\ HasPipe(lines_list[n])
        /\ Contains(lines_list[n], Slice(assignee_val, 0, AssigneePrefix))}

\* lines 260-284: the first such line is used (break, line 284)
FirstOf(found, lines_list, reasoning_text) ==
    IF found = {} THEN reasoning_text
    ELSE RescanFrom(lines_list, (CHOOSE n \in found : \A m \in found : n <= m) - 1,
                    reasoning_text)

\* lines 260-284: the reasoning text after the re-scan of the original text
Rescan(lines_list, task_id_val, assignee_val, reasoning_text) ==
    FirstOf(RowLines(lines_list, task_id_val, assignee_val), lines_list, reasoning_text)

Max5(a, b, c, d, e) ==
    CHOOSE m \in {a, b, c, d, e} : \A x \in {a, b, c, d, e} : x <= m

\* line 241
IsDashRow(row) ==
    \A k \in DOMAIN row :
        Strip(Remove(Remove(Strip(row[k]), <<"-">>), <<":">>)) = <<>>

\* lines 248-251, 255-256: a cell by resolved column, dflt when unresolved
Cell(row, col, dflt) == IF col # 0 /\ col <= Len(row) THEN row[col] ELSE dflt

\* line 291
TraceOrDefault(reasoning_text) ==
    IF reasoning_text # <<>> THEN reasoning_text ELSE SeeFullReport

\* lines 248-292: the assignment of a row with enough columns
Assignment(row, cols, lines_list) ==
    [Task_ID         |-> Cell(row, cols.task_col, NA),
     Assignee        |-> Cell(row, cols.assignee_col, NA),
     Estimated_Hours |-> Cell(row, cols.hours_col, NA),
     Risk_Level      |-> Cell(row, cols.risk_col, NA),
     Reasoning_Trace |->
         TraceOrDefault(Rescan(lines_list, Cell(row, cols.task_col, NA),
                               Cell(row, cols.assignee_col, NA),
                               Cell(row, cols.reasoning_col, <<>>)))]

\* lines 293-295
Accepted(assignment) ==
    IF assignment.Task_ID # NA /\ assignment.Assignee # NA
    THEN <<assignment>> ELSE <<>>

\* lines 239-295: one data row; the sequence of assignments it appends
RowAssignments(row, cols, lines_list) ==
    IF IsDashRow(row) THEN <<>>
    ELSE IF Len(row) >= Max5(cols.task_col, cols.assignee_col, cols.hours_col,
                             cols.risk_col, cols.reasoning_col)
    THEN Accepted(Assignment(row, cols, lines_list))
    ELSE <<>>

RECURSIVE DataRows(_, _, _)
DataRows(rows, cols, lines_list) ==
    IF rows = <<>> THEN <<>>
    ELSE RowAssignments(rows[1], cols, lines_list) \o DataRows(Tail(rows), cols, lines_list)

\* lines 192-297: task_assignments after the markdown-table tier.  Every
\* subscript inside the try block is guarded by a length test (lines 201-206,
\* 212, 246-256), so the handler of line 296 is never entered.
\* lines 212-295
TableRows(cleaned_lines, lines_list) ==
    IF cleaned_lines # <<>> /\ Len(cleaned_lines) > 1
    THEN DataRows(Tail(cleaned_lines), ResolveColumns(cleaned_lines[1]), lines_list)
    ELSE <<>>

\* lines 192-210
TableOf(table_row_indices, lines_list) ==
    IF table_row_indices # <<>>
    THEN TableRows(CleanedLines(table_row_indices), lines_list)
    ELSE <<>>

TableTierOf(lines) == TableOf(Scan(lines).rows, lines)

TableTier(plan_text_arg) == TableTierOf(Split(plan_text_arg, NL))

---------------------------------------------------------------------------
(* parse_sprint_plan_output, lines 299-317: the regular-expression tier.   *)
(* The pattern of line 302, under re.IGNORECASE, is                        *)
(*   P? G1 S A? G2 H? G3? R? G4?   with                                    *)
(*   P  = Task[_\s]*(?:ID)?[:\s]*        G1 = ([T\-]?\d+|[A-Z]+\-\d+)      *)
(*   S  = [:\s]+                         A  = Assignee[:\s]+               *)
(*   G2 = ([A-Za-z\s]+?)                 H  = [,\s]+Hours?[:\s]+           *)
(*   G3 = (\d+)                          R  = [,\s]+Risk[:\s]+             *)
(*   G4 = ([A-Za-z]+)                                                      *)
(* Positions are 1-based indices into the text; a group that did not take  *)
(* part in the match is None.                                              *)

None == <<"None">>

ColonSpace == {":"} \cup SpaceSet
CommaSpace == {","} \cup SpaceSet
UnderSpace == {"_"} \cup SpaceSet

\* the end (exclusive) of the longest run of characters of cls starting at p
RECURSIVE RunEnd(_, _, _)
RunEnd(t, p, cls) ==
    IF p <= Len(t) /\ t[p] \in cls THEN RunEnd(t, p + 1, cls) ELSE p

\* a literal, matched case-insensitively at p
LitAt(t, p, lit) ==
    p + Len(lit) - 1 <= Len(t) /\ Lower(SubSeq(t, p, p + Len(lit) - 1)) = lit

\* P? : greedy; every shorter alternative of P hands G1 a start at which it
\* fails whenever it fails after the longest one
PrefixEnd(t, p) ==
    IF LitAt(t, p, <<"t","a","s","k">>)
    THEN LET a == RunEnd(t, p + 4, UnderSpace)
             b == IF LitAt(t, a, <<"i","d">>) THEN a + 2 ELSE a
         IN  RunEnd(t, b, ColonSpace)
    ELSE p

\* G1 at q: the end (exclusive) of the task id, 0 when G1 does not match
TaskIdEnd(t, q) ==
    IF q > Len(t) THEN 0
    ELSE IF t[q] \in {"t", "T", "-"} /\ RunEnd(t, q + 1, DigitSet) > q + 1
    THEN RunEnd(t, q + 1, DigitSet)
    ELSE IF t[q] \in DigitSet THEN RunEnd(t, q, DigitSet)
    ELSE IF t[q] \in LetterSet
    THEN LET e == RunEnd(t, q, LetterSet)
         IN  IF e <= Len(t) /\ t[e] = "-" /\ RunEnd(t, e + 1, DigitSet) > e + 1
             THEN RunEnd(t, e + 1, DigitSet) ELSE 0
    ELSE 0

\* S A? G2 after a task id ending at e1: the position of the one character
\* the lazy group G2 takes, 0 when there is none.  S is tried longest first;
\* with S at its longest, A is tried before its omission, its own run of
\* [:\s] longest first.
AssigneePos(t, e1) ==
    LET s_end == RunEnd(t, e1, ColonSpace)
        a_lit == LitAt(t, s_end, <<"a","s","s","i","g","n","e","e">>)
        a_end == RunEnd(t, s_end + 8, ColonSpace)
        \* positions G2 can take after A, best first
        after_a == {r \in (s_end + 9)..a_end :
                        /\ r <= Len(t)
                        /\ IF r = a_end THEN t[r] \in LetterSet ELSE t[r] \in SpaceSet}
        \* positions G2 can take with S shortened
        short_s == {r \in (e1 + 1)..(s_end - 1) : t[r] \in SpaceSet}
    IN  IF s_end = e1 THEN 0
        ELSE IF a_lit /\ after_a # {}
        THEN CHOOSE r \in after_a : \A x \in after_a : x <= r
        ELSE IF s_end <= Len(t) /\ t[s_end] \in LetterSet THEN s_end
        ELSE IF short_s # {}
        THEN CHOOSE r \in short_s : \A x \in short_s : x <= r
        ELSE 0

\* H? or R? at h: the end (exclusive) of [,\s]+ word s? [:\s]+ , h when the
\* optional part does not match
LabelEnd(t, h, word, plural) ==
    LET w  == RunEnd(t, h, CommaSpace)
        w2 == w + Len(word)
        w3 == IF plural /\ w2 <= Len(t) /\ t[w2] \in {"s", "S"} THEN w2 + 1 ELSE w2
        w4 == RunEnd(t, w3, ColonSpace)
    IN  IF w > h /\ LitAt(t, w, word) /\ w4 > w3 THEN w4 ELSE h

\* re.match of the pattern at position p
MatchAt(t, p) ==
    LET q  == PrefixEnd(t, p)
        e1 == TaskIdEnd(t, q)
        r  == IF e1 = 0 THEN 0 ELSE AssigneePos(t, e1)
        h  == LabelEnd(t, r + 1, <<"h","o","u","r">>, TRUE)
        e3 == RunEnd(t, h, DigitSet)
        k  == LabelEnd(t, e3, <<"r","i","s","k">>, FALSE)
        e4 == RunEnd(t, k, LetterSet)
    IN  IF r = 0 THEN [ok |-> FALSE]
        ELSE [ok |-> TRUE,
              g1 |-> SubSeq(t, q, e1 - 1),
              g2 |-> <<t[r]>>,
              g3 |-> IF e3 > h THEN SubSeq(t, h, e3 - 1) ELSE None,
              g4 |-> IF e4 > k THEN SubSeq(t, k, e4 - 1) ELSE None,
              end |-> e4]

\* re.finditer from position p on: the non-overlapping matches, left to right
RECURSIVE FindIter(_, _)
\* the match m, then the matches after it
MatchThenRest(t, m) == <<m>> \o FindIter(t, m.end)

\* the leftmost of the positions at which the pattern matches
FirstMatch(t, starts) ==
    IF starts = {} THEN <<>>
    ELSE MatchThenRest(t, MatchAt(t, CHOOSE s \in starts : \A x \in starts : s <= x))

FindIter(t, p) == FirstMatch(t, {s \in p..Len(t) : MatchAt(t, s).ok})

\* a group is falsy when it is None or empty (lines 306-309)
Truthy(g) == g # None /\ g # <<>>

\* the row of one match if .strip() were called on every group: the None of
\* an unmatched group has no .strip
RegexRowStripEvery(m) ==
    [exc |-> m.g3 = None \/ m.g4 = None,
     row |-> [Task_ID         |-> IF Truthy(m.g1) THEN m.g1 ELSE NA,
              Assignee        |-> IF Truthy(m.g2) THEN Strip(m.g2) ELSE NA,
              Estimated_Hours |-> IF Truthy(m.g3) THEN m.g3 ELSE NA,
              Risk_Level      |-> IF Truthy(m.g4) THEN m.g4 ELSE NA,
              Reasoning_Trace |-> SeeFullReportBelow]]

\* lines 306-317: the row of one match.  group(2).strip() is the only call
\* on a group; it is evaluated only when the group is truthy.
RegexRow(m) ==
    [exc |-> FALSE,
     row |-> [Task_ID         |-> IF Truthy(m.g1) THEN m.g1 ELSE NA,
              Assignee        |-> IF Truthy(m.g2) THEN Strip(m.g2) ELSE NA,
              Estimated_Hours |-> IF Truthy(m.g3) THEN m.g3 ELSE NA,
              Risk_Level      |-> IF Truthy(m.g4) THEN m.g4 ELSE NA,
              Reasoning_Trace |-> SeeFullReportBelow]]

\* lines 305-317
RegexRows(matches) == [k \in DOMAIN matches |-> RegexRow(matches[k])]

RegexTier(plan_text_arg) == RegexRows(FindIter(plan_text_arg, 1))

\* lines 319-326: the DataFrame of the assignments
Returned(task_assignments) ==
    [raised |-> FALSE, df |-> [columns |-> Columns, rows |-> task_assignments]]

\* lines 300-317: the rows of the matches are appended; an exception raised
\* here is outside the try block of lines 193-297 and reaches the caller
FromRegex(tier2) ==
    IF \E k \in DOMAIN tier2 : tier2[k].exc
    THEN [raised |-> TRUE, df |-> [columns |-> <<>>, rows |-> <<>>]]
    ELSE Returned([k \in DOMAIN tier2 |-> tier2[k].row])

\* line 300 without its condition: the matches are added to the rows of
\* the table
AfterTableBoth(tier1, plan_text_arg) ==
    Returned(tier1 \o [k \in DOMAIN RegexTier(plan_text_arg) |->
                          RegexTier(plan_text_arg)[k].row])

\* line 300: if not task_assignments
AfterTable(tier1, plan_text_arg) ==
    IF tier1 = <<>> THEN FromRegex(RegexTier(plan_text_arg)) ELSE Returned(tier1)

\* lines 126-326: the call
ParseSprintPlanOutput(plan_text_arg) == AfterTable(TableTier(plan_text_arg), plan_text_arg)

---------------------------------------------------------------------------
(* InterviewerAgent.generate_question (src/src/agents/interview_agent.py). *)

QUESTION_TAG == <<"Q","U","E","S","T","I","O","N",":">>
SCORE_TAG == <<"S","U","F","F","I","C","I","E","N","C","Y","_","S","C","O","R","E",":">>
READY_TAG == <<"R","E","A","D","Y","_","T","O","_","P","L","A","N",":">>
TRUE_STR == <<"t","r","u","e">>
USER == <<"u","s","e","r">>

\* line 91
DefaultQuestion ==
    <<"C","o","u","l","d"," ","y","o","u"," ","t","e","l","l"," ","m","e"," ",
      "m","o","r","e"," ","a","b","o","u","t"," ","t","h","e"," ","p","r","o",
      "j","e","c","t"," ","t","i","m","e","l","i","n","e"," ","a","n","d"," ",
      "d","e","a","d","l","i","n","e","s","?">>

\* line 101
FallbackQuestion ==
    <<"W","h","a","t"," ","a","r","e"," ","t","h","e"," ","k","e","y"," ",
      "d","e","a","d","l","i","n","e","s"," ","a","n","d"," ","p","r","i","o",
      "r","i","t","i","e","s"," ","f","o","r"," ","t","h","i","s"," ","s","p",
      "r","i","n","t","?">>

ReadyThreshold == 80
MaxScore == 100
MinScore == 0
FallbackScore == 30

\* lines 28-32: conversation_text; msg.get supplies 'user' and '' for a
\* missing key
RECURSIVE ConversationText(_)
ConversationText(history) ==
    IF history = <<>> THEN <<>>
    ELSE LET msg     == history[1]
             role    == IF "role" \in DOMAIN msg THEN msg.role ELSE USER
             content == IF "content" \in DOMAIN msg THEN msg.content ELSE <<>>
         IN  Upper(role) \o <<":", " ">> \o content \o <<NL>>
             \o ConversationText(Tail(history))

\* the value of a string of digits and underscores, most significant first
RECURSIVE DigitsValue(_, _)
DigitsValue(s, acc) ==
    IF s = <<>> THEN acc
    ELSE IF s[1] = "_" THEN DigitsValue(Tail(s), acc)
    ELSE DigitsValue(Tail(s),
             10 * acc + (CHOOSE d \in DOMAIN DigitChars : DigitChars[d] = s[1]) - 1)

\* int(s): surrounding whitespace, an optional sign, digits with single
\* underscores between them; anything else is a ValueError
IntOf(s) ==
    LET t    == Strip(s)
        neg  == t # <<>> /\ t[1] = "-"
        body == IF t # <<>> /\ t[1] \in {"-", "+"} THEN Tail(t) ELSE t
        ok   == /\ body # <<>>
                /\ \A k \in DOMAIN body : body[k] \in DigitSet \cup {"_"}
                /\ body[1] # "_" /\ body[Len(body)] # "_"
                /\ \A k \in 1..(Len(body) - 1) : ~(body[k] = "_" /\ body[k + 1] = "_")
    IN  IF ok THEN [ok |-> TRUE,
                    val |-> IF neg THEN 0 - DigitsValue(body, 0) ELSE DigitsValue(body, 0)]
        ELSE [ok |-> FALSE, val |-> 0]

\* readiness if both the flag and the score were required
ReadyToPlanBoth(ready_str, sufficiency_score) ==
    ready_str = TRUE_STR /\ sufficiency_score >= ReadyThreshold

\* line 88
ReadyToPlan(ready_str, sufficiency_score) ==
    ready_str = TRUE_STR \/ sufficiency_score >= ReadyThreshold

\* lines 79-88: one line of the response; st is (question,
\* sufficiency_score, ready_to_plan)
ParseLine(st, line) ==
    IF StartsWith(line, QUESTION_TAG)
    THEN [st EXCEPT !.question = Strip(Remove(line, QUESTION_TAG))]
    ELSE IF StartsWith(line, SCORE_TAG)
    THEN LET n == IntOf(Strip(Remove(line, SCORE_TAG)))
         IN  [st EXCEPT !.sufficiency_score = IF n.ok THEN n.val ELSE 0]
    ELSE IF StartsWith(line, READY_TAG)
    THEN [st EXCEPT !.ready_to_plan =
             ReadyToPlan(Lower(Strip(Remove(line, READY_TAG))), st.sufficiency_score)]
    ELSE st

\* lines 74-88
RECURSIVE ParseUpTo(_, _)
ParseUpTo(lines, n) ==
    IF n = 0 THEN [question |-> <<>>, sufficiency_score |-> 0, ready_to_plan |-> FALSE]
    ELSE ParseLine(ParseUpTo(lines, n - 1), lines[n])

\* the clamp without its upper end
ClampedBelowOnly(s) == IF s < MinScore THEN MinScore ELSE s

\* the score if line 95 did not clamp it
Unclamped(sufficiency_score) == sufficiency_score

\* line 95
ClampScore(sufficiency_score) ==
    LET lo == IF sufficiency_score > MinScore THEN sufficiency_score ELSE MinScore
    IN  IF lo < MaxScore THEN lo ELSE MaxScore

\* lines 93-97
ParsedResult(st) ==
    [question          |-> IF st.question = <<>> THEN DefaultQuestion ELSE st.question,
     sufficiency_score |-> ClampScore(st.sufficiency_score),
     ready_to_plan     |-> st.ready_to_plan]

\* lines 100-104
Fallback ==
    [question |-> FallbackQuestion, sufficiency_score |-> FallbackScore,
     ready_to_plan |-> FALSE]

\* lines 70-97, the body of the try block: what it returns, or the exception
\* it raises.  The Oracle either raises, returns an object whose content is a
\* string, returns an object without a content attribute (str(response) is
\* used), or returns an object whose content is not a string (no .split).
TryBody(oracle_arg) ==
    IF oracle_arg.kind = "raise" THEN [exc |-> "Exception", value |-> Fallback]
    ELSE IF oracle_arg.kind = "content_nontext"
    THEN [exc |-> "AttributeError", value |-> Fallback]
    ELSE LET lines == Split(oracle_arg.text, NL)
         IN  [exc |-> "none", value |-> ParsedResult(ParseUpTo(lines, Len(lines)))]

\* a handler for ValueError only
CaughtValueError(exc) == exc = "ValueError"

\* line 98: except Exception catches every exception of the try block
Caught(exc) == exc # "none"

\* lines 69-104: the try statement around the body
TryExcept(body) ==
    IF body.exc = "none" THEN [raised |-> FALSE, value |-> body.value]
    ELSE IF Caught(body.exc) THEN [raised |-> FALSE, value |-> Fallback]
    ELSE [raised |-> TRUE, value |-> Fallback]

\* lines 15-104: the call.  conversation_text (lines 27-32) is built before
\* the try block, so a role that is not a text (no .upper) raises to the
\* caller.  The text goes into the prompt only; the Oracle's answer is not a
\* function of the prompt.
GenerateQuestionWith(history, outcome) ==
    IF ConversationText(history) \in Seq(STRING)
    THEN outcome
    ELSE [raised |-> TRUE, value |-> Fallback]

GenerateQuestion(history, oracle_arg) ==
    GenerateQuestionWith(history, TryExcept(TryBody(oracle_arg)))

---------------------------------------------------------------------------
(* The session state of src/main.py and the Context Store before any use.  *)

\* main.py lines 48-67 (chat_history, line 46, is the variable of its own)
\* st.session_state.sprint_plan_table = None: the field holds no DataFrame
NoTable == [none |-> TRUE]

InitialSession ==
    [sufficiency_score           |-> 0,
     ready_to_plan               |-> FALSE,
     current_question            |-> <<>>,
     pending_question_generation |-> FALSE,
     sprint_plan                 |-> None,
     sprint_plan_table           |-> NoTable,
     sprint_plan_full_text       |-> None]

\* db_handler.py lines 31-44: the three collections, each a sequence of
\* entries in the order they were added
EmptyStore == [resumes |-> <<>>, backlog |-> <<>>, project_context |-> <<>>]

\* no operation has run yet
NoOp == [name |-> "none", failed |-> FALSE]

\* no caller is inside an add method
NoCallers == <<>>

SessionUnused ==
    session = InitialSession /\ store = EmptyStore /\ op = NoOp /\ callers = NoCallers

---------------------------------------------------------------------------
(* The inputs of parse_sprint_plan_output that the model enumerates.       *)

MaxRows == 2      \* data rows of a table, lines of an assignment list
MaxLines == 3     \* lines of a free or prose text

\* str(n) for an integer n
RECURSIVE NatToStr(_)
NatToStr(n) ==
    IF n < 10 THEN <<DigitChars[n + 1]>>
    ELSE NatToStr(n \div 10) \o <<DigitChars[(n % 10) + 1]>>

IntToStr(n) == IF n < 0 THEN <<"-">> \o NatToStr(0 - n) ELSE NatToStr(n)

Names ==
    << <<"J","o","h","n"," ","D","o","e">>,
       <<"J","a","n","e"," ","D","o","e">>,
       <<"A","l","e","x","a","n","d","e","r"," ","H","a","m","i","l","t","o","n">> >>

Risks == << <<"L","o","w">>, <<"H","i","g","h">>, <<"M","e","d","i","u","m">> >>

Reasons ==
    << <<"S","k","i","l","l"," ","m","a","t","c","h">>,
       <<"B","a","c","k","e","n","d"," ","e","x","p","e","r","i","e","n","c","e">>,
       <<"A","v","a","i","l","a","b","l","e"," ","t","h","i","s"," ","s","p","r","i","n","t">> >>

Cyclic(seq, i) == seq[((i - 1) % Len(seq)) + 1]

\* the five cells of the i-th assignment, in the order of Columns:
\* T-101 | John Doe | 8 | Low | Skill match, T-102 | Jane Doe | 16 | High | ...
RowData(i) ==
    << <<"T", "-">> \o IntToStr(100 + i), Cyclic(Names, i), IntToStr(8 * i),
       Cyclic(Risks, i), Cyclic(Reasons, i) >>

\* the assignment that the i-th row stands for
RowRecord(i) ==
    [Task_ID         |-> RowData(i)[1],
     Assignee        |-> RowData(i)[2],
     Estimated_Hours |-> RowData(i)[3],
     Risk_Level      |-> RowData(i)[4],
     Reasoning_Trace |-> RowData(i)[5]]

SeparatorLine ==
    <<"|","-","-","-","|","-","-","-","|","-","-","-","|","-","-","-","|","-","-","-","|">>

PlainContinuation == <<"c","o","n","t","i","n","u","e","s"," ","h","e","r","e">>
KeywordContinuation ==
    <<"A","s","s","i","g","n","m","e","n","t",":"," ","g","o","o","d"," ","f","i","t">>

ContinuationText(cont) ==
    IF cont = "keyword" THEN KeywordContinuation ELSE PlainContinuation

\* a table line: | c1 | c2 | ... , closed by a trailing | when trail
TableLine(cells, trail) ==
    <<"|", " ">> \o Join(cells, <<" ", "|", " ">>)
    \o (IF trail THEN <<" ", "|">> ELSE <<>>)

Permuted(cells, order) == [j \in DOMAIN order |-> cells[order[j]]]

\* A markdown table: header in column order `order`, a separator row when
\* sep, n data rows, and when cont is not "none" one continuation line
\* without | placed gap lines after the last data row.
TableLines(t) ==
    <<TableLine(Permuted(Columns, t.order), TRUE)>>
    \o (IF t.sep THEN <<SeparatorLine>> ELSE <<>>)
    \o [i \in 1..t.n |-> TableLine(Permuted(RowData(i), t.order), t.trail)]
    \o (IF t.cont = "none" THEN <<>>
        ELSE [k \in 1..t.gap |-> IF k = t.gap THEN ContinuationText(t.cont) ELSE <<>>])

TableInputs ==
    [kind : {"table"}, order : Permutations(1..Len(Columns)), n : 1..MaxRows,
     sep : BOOLEAN, trail : BOOLEAN, cont : {"none"}, gap : {1}]
    \cup
    [kind : {"table"}, order : Permutations(1..Len(Columns)), n : 1..MaxRows,
     sep : BOOLEAN, trail : BOOLEAN, cont : {"plain", "keyword"}, gap : 1..CloseWindow]

\* <task-id>: <assignee>[, Hours: <n>][, Risk: <word>]
ListLine(i, hours, risk) ==
    RowData(i)[1] \o <<":", " ">> \o RowData(i)[2]
    \o (IF hours THEN <<","," ","H","o","u","r","s",":"," ">> \o RowData(i)[3] ELSE <<>>)
    \o (IF risk THEN <<","," ","R","i","s","k",":"," ">> \o RowData(i)[4] ELSE <<>>)

ListInputs == [kind : {"list"}, n : 1..MaxRows, hours : BOOLEAN, risk : BOOLEAN]

ProsePool ==
    { <<>>,
      <<"n","o","t","h","i","n","g"," ","t","o"," ","s","e","e"," ","h","e","r","e">>,
      <<"W","e"," ","h","a","v","e"," ","3"," ","d","e","v","e","l","o","p","e","r","s",
        " ","a","v","a","i","l","a","b","l","e">>,
      <<"T","h","e"," ","s","p","r","i","n","t"," ","s","t","a","r","t","s"," ","o","n",
        " ","M","o","n","d","a","y">> }

ShortHeader ==
    <<"|"," ","T","a","s","k","_","I","D"," ","|"," ","A","s","s","i","g","n","e","e"," ",
      "|"," ","R","i","s","k","_","L","e","v","e","l"," ","|">>
ShortRow == <<"|"," ","T","-","1","0","2"," ","|"," ","J","a","n","e"," ","R","o","e"," ","|">>
LongRow ==
    <<"|"," ","T","-","1","0","3"," ","|"," ","A","l"," ","|"," ","4"," ","|"," ","L","o","w",
      " ","|"," ","o","k"," ","|"," ","e","x","t","r","a"," ","|"," ","m","o","r","e"," ","|">>

\* lines of malformed and mixed texts
FreePool ==
    { TableLine(Columns, TRUE), ShortHeader, SeparatorLine,
      TableLine(RowData(1), TRUE), ShortRow, LongRow,
      KeywordContinuation, ListLine(1, TRUE, TRUE) }

SeqsUpTo(S, n) == UNION {[1..k -> S] : k \in 0..n}

ProseInputs == [kind : {"prose"}, lines : SeqsUpTo(ProsePool, MaxLines)]
FreeInputs == [kind : {"free"}, lines : SeqsUpTo(FreePool, MaxLines)]

\* A table followed by one line without |, gap lines after the last data
\* row (the lines between are blank), and by one more data row when after
GapInputs ==
    [kind : {"gap"}, n : 1..MaxRows, cont : {"plain", "keyword"},
     gap : 1..(ContinuationWindow + 1), after : BOOLEAN]

GapLines(t) ==
    <<TableLine(Columns, TRUE)>>
    \o [i \in 1..t.n |-> TableLine(RowData(i), TRUE)]
    \o [k \in 1..t.gap |-> IF k = t.gap THEN ContinuationText(t.cont) ELSE <<>>]
    \o (IF t.after THEN <<TableLine(RowData(t.n + 1), TRUE)>> ELSE <<>>)

\* header cells that hold a key of a field a second time, or two keys
ExtraHeaders ==
    { <<"T","a","s","k","_","T","y","p","e">>, <<"A","s","s","i","g","n","e","d","_","B","y">>, <<"T","i","m","e","_","S","p","e","n","t">>, <<"R","i","s","k","_","O","w","n","e","r">>, <<"T","r","a","c","e","_","L","i","n","k">>,
      <<"T","a","s","k"," ","A","s","s","i","g","n","e","e">> }

ExtraCell == <<"e","x","t","r","a">>

InsertAt(cells, pos, cell) ==
    SubSeq(cells, 1, pos - 1) \o <<cell>> \o SubSeq(cells, pos, Len(cells))

\* A table of one data row whose header has the cell extra at place pos
ColumnInputs ==
    [kind : {"columns"}, extra : ExtraHeaders, pos : 1..(Len(Columns) + 1)]

ColumnLines(t) ==
    << TableLine(InsertAt(Columns, t.pos, t.extra), TRUE),
       TableLine(InsertAt(RowData(1), t.pos, ExtraCell), TRUE) >>

MaxFollow == 15

PlainFollow == <<"s","e","e"," ","t","h","e"," ","n","o","t","e","s"," ","o","f"," ","t","h","e"," ","t","e","a","m">>

\* the k-th line after the row
FollowLine(style, k) ==
    IF style = "keyword" \/ (style = "keyword_first" /\ k = 1)
    THEN KeywordContinuation \o SPACE \o IntToStr(k)
    ELSE PlainFollow \o SPACE \o IntToStr(k)

\* A table of one data row followed by k lines without | and, when next,
\* by a second data row with k - 1 of the lines after it
RescanInputs ==
    [kind : {"rescan"}, k : 0..MaxFollow, style : {"keyword", "keyword_first", "plain"},
     next : BOOLEAN]

RescanLines(t) ==
    << TableLine(Columns, TRUE), TableLine(RowData(1), TRUE) >>
    \o (IF t.next /\ t.k > 0
        THEN <<FollowLine(t.style, 1), TableLine(RowData(2), TRUE)>>
             \o [k \in 1..(t.k - 1) |-> FollowLine(t.style, k + 1)]
        ELSE [k \in 1..t.k |-> FollowLine(t.style, k)])

ExtractInputs ==
    TableInputs \cup ListInputs \cup ProseInputs \cup FreeInputs
    \cup GapInputs \cup ColumnInputs \cup RescanInputs

InputLines(i) ==
    IF i.kind = "table" THEN TableLines(i)
    ELSE IF i.kind = "list" THEN [k \in 1..i.n |-> ListLine(k, i.hours, i.risk)]
    ELSE IF i.kind = "gap" THEN GapLines(i)
    ELSE IF i.kind = "columns" THEN ColumnLines(i)
    ELSE IF i.kind = "rescan" THEN RescanLines(i)
    ELSE i.lines

\* the text handed to parse_sprint_plan_output
RenderPlanText(i) == Join(InputLines(i), <<NL>>)

NoOracle == [kind |-> "none", text |-> <<>>]
NoFrame == [columns |-> <<>>, rows |-> <<>>]
NoResult == [question |-> <<>>, sufficiency_score |-> 0, ready_to_plan |-> FALSE]

ExtractInit ==
    /\ pc = "start"
    /\ inp \in ExtractInputs
    /\ plan_text = RenderPlanText(inp)
    /\ df = NoFrame
    /\ raised = FALSE
    /\ chat_history = <<>>
    /\ oracle = NoOracle
    /\ result = NoResult
    /\ SessionUnused

\* df, _ = parse_sprint_plan_output(plan_text)
ParsePlanCall ==
    /\ pc = "start"
    /\ plan_text = RenderPlanText(inp)
    /\ \E r \in {ParseSprintPlanOutput(plan_text)} : df' = r.df /\ raised' = r.raised
    /\ pc' = "done"
    /\ UNCHANGED <<inp, plan_text, chat_history, oracle, result>>
    /\ UNCHANGED <<session, store, op, callers>>

ExtractNext == ParsePlanCall

SpecExtract == ExtractInit /\ [][ExtractNext]_vars

---------------------------------------------------------------------------
(* The Oracle responses and chat histories that the model enumerates.      *)

MaxRespLines == 3     \* lines of an Oracle response

TheQuestion ==
    <<"W","h","a","t"," ","i","s"," ","t","h","e"," ","d","e","a","d","l","i","n","e","?">>
TheAnswer == <<"F","r","i","d","a","y">>
ASSISTANT == <<"a","s","s","i","s","t","a","n","t">>
NoiseLine ==
    <<"H","e","r","e"," ","i","s"," ","m","y"," ","a","s","s","e","s","s","m","e","n","t">>
FALSE_STR == <<"f","a","l","s","e">>
TRUE_CAP == <<"T","r","u","e">>

ScoreValues == {0 - 5, 20, 80, 150}

\* the lines of a response, described by what they say
QuestionLines == [tag : {"question"}, q : {TheQuestion, <<>>}]
ScoreLines ==
    [tag : {"score"}, numeric : {TRUE}, val : ScoreValues]
    \cup [tag : {"score"}, numeric : {FALSE}, val : {85}]
ReadyLines == [tag : {"ready"}, flag : {TRUE_STR, FALSE_STR, TRUE_CAP}]
NoiseLines == [tag : {"noise"}]
RespLinePool == QuestionLines \cup ScoreLines \cup ReadyLines \cup NoiseLines

\* the text of a described line; a non-numeric score reads like 85%
RenderLine(d) ==
    IF d.tag = "question" THEN QUESTION_TAG \o SPACE \o d.q
    ELSE IF d.tag = "score"
    THEN SCORE_TAG \o SPACE \o IntToStr(d.val) \o (IF d.numeric THEN <<>> ELSE <<"%">>)
    ELSE IF d.tag = "ready" THEN READY_TAG \o SPACE \o d.flag
    ELSE NoiseLine

RenderResponse(descs) == Join([k \in DOMAIN descs |-> RenderLine(descs[k])], <<NL>>)

InterviewInputs == [kind : {"response"}, lines : SeqsUpTo(RespLinePool, MaxRespLines)]

\* what the Oracle does with the prompt: it raises, or returns an object
\* with a text content, with a content that is not a text, or without a
\* content attribute (str(response) is then the text)
Oracles(i) ==
    [kind : {"content", "str"}, text : {RenderResponse(i.lines)}]
    \cup (IF i.lines = <<>>
          THEN [kind : {"raise", "content_nontext"}, text : {<<>>}] ELSE {})

\* the histories main.py hands over: the questions asked and the answers given
Conversation ==
    << [role |-> ASSISTANT, content |-> TheQuestion],
       [role |-> USER, content |-> TheAnswer] >>
ChatHistories == {SubSeq(Conversation, 1, k) : k \in 0..Len(Conversation)}

InterviewInit ==
    /\ pc = "start"
    /\ inp \in InterviewInputs
    /\ oracle \in Oracles(inp)
    /\ chat_history \in ChatHistories
    /\ plan_text = <<>>
    /\ df = NoFrame
    /\ raised = FALSE
    /\ result = NoResult
    /\ SessionUnused

\* result = interviewer.generate_question(chat_history, existing_context)
GenerateQuestionCall ==
    /\ pc = "start"
    /\ oracle.kind # "none"
    /\ \E r \in {GenerateQuestion(chat_history, oracle)} :
           result' = r.value /\ raised' = r.raised
    /\ pc' = "done"
    /\ UNCHANGED <<inp, plan_text, df, chat_history, oracle>>
    /\ UNCHANGED <<session, store, op, callers>>

InterviewNext == GenerateQuestionCall

SpecInterview == InterviewInit /\ [][InterviewNext]_vars

---------------------------------------------------------------------------
(* Properties of parse_sprint_plan_output, checked under SpecExtract.      *)

\* the header, the separator row |---|---|---|---|---| and the data row
\* | T-101 | John Doe | 8 | Low | Skill match |
StandardTableInput ==
    [kind |-> "table", order |-> <<1, 2, 3, 4, 5>>, n |-> 1, sep |-> TRUE,
     trail |-> TRUE, cont |-> "none", gap |-> 1]

\* C1: the three-line text of header row, separator row and the data row
\* | T-101 | John Doe | 8 | Low | Skill match | yields exactly one
\* assignment: T-101, John Doe, 8, Low, Skill match.
C1_StandardTableOneAssignment ==
    (pc = "done" /\ inp = StandardTableInput) => df.rows = <<RowRecord(1)>>

\* C2: a well-formed table (the five columns in any order, a separator row,
\* N >= 1 data rows with non-empty cells) yields exactly N assignments, each
\* with the cells of its row under the matching header.
C2_WellFormedTableRows ==
    (pc = "done" /\ inp.kind = "table" /\ inp.sep /\ inp.cont = "none") =>
        /\ Len(df.rows) = inp.n
        /\ \A i \in 1..inp.n : df.rows[i] = RowRecord(i)

\* C3: a line without | that follows the last data row within 2 lines is
\* appended to the Reasoning_Trace of that row, with or without a trailing |
\* on the row and with or without a reasoning keyword in the line.  Stated
\* for tables without a separator row whose last column is the reasoning.
C3_ContinuationAppended ==
    (pc = "done" /\ inp.kind = "table" /\ ~inp.sep /\ inp.cont # "none"
     /\ inp.order[5] = 5) =>
        /\ Len(df.rows) = inp.n
        /\ StartsWith(df.rows[inp.n].Reasoning_Trace, RowData(inp.n)[5])
        /\ Contains(df.rows[inp.n].Reasoning_Trace, ContinuationText(inp.cont))

\* C4: k lines <task-id>: <assignee>[, Hours: <n>][, Risk: <word>] yield
\* exactly k assignments, the i-th with the task id, assignee, hours and risk
\* of the i-th line (N/A when absent) and the reasoning placeholder.
C4_ListLinesExtracted ==
    (pc = "done" /\ inp.kind = "list") =>
        /\ Len(df.rows) = inp.n
        /\ \A i \in 1..inp.n :
               df.rows[i] =
                   [Task_ID         |-> RowData(i)[1],
                    Assignee        |-> RowData(i)[2],
                    Estimated_Hours |-> IF inp.hours THEN RowData(i)[3] ELSE NA,
                    Risk_Level      |-> IF inp.risk THEN RowData(i)[4] ELSE NA,
                    Reasoning_Trace |-> SeeFullReportBelow]

\* C5: the empty text and prose without a table or an assignment pattern
\* yield an empty table that keeps the five columns, and nothing is raised.
C5_ProseYieldsEmptyTable ==
    (pc = "done" /\ inp.kind = "prose") =>
        ~raised /\ df = [columns |-> Columns, rows |-> <<>>]

FieldNames == {"Task_ID", "Assignee", "Estimated_Hours", "Risk_Level", "Reasoning_Trace"}

\* a text: a sequence of characters (the None of an unmatched group is not)
IsText(v) == v # None /\ \A k \in DOMAIN v : v[k] \in STRING

\* C6: parse_sprint_plan_output never raises; for every input it returns a
\* table with the five columns whose rows carry a text in each field.
C6_NeverRaises ==
    pc = "done" =>
        /\ ~raised
        /\ df.columns = Columns
        /\ \A i \in DOMAIN df.rows :
               /\ DOMAIN df.rows[i] = FieldNames
               /\ \A c \in FieldNames : IsText(df.rows[i][c])

\* C6 happens: a table whose second row has too few cells and whose third
\* has too many; the short row is dropped, nothing is raised.
C6_MalformedTableParsed ==
    /\ pc = "done"
    /\ inp.kind = "free"
    /\ inp.lines = <<TableLine(Columns, TRUE), ShortRow, LongRow>>
    /\ ~raised
    /\ Len(df.rows) = 1
    /\ df.rows[1].Task_ID = <<"T", "-", "1", "0", "3">>

---------------------------------------------------------------------------
(* Properties of generate_question, checked under SpecInterview.           *)

TextKinds == {"content", "str"}

Tagged(descs, tag) == {k \in DOMAIN descs : descs[k].tag = tag}
LastIn(S) == CHOOSE k \in S : \A j \in S : j <= k

\* the value the last SUFFICIENCY_SCORE line states; 0 when there is no such
\* line or it is not a number
StatedScore(descs) ==
    IF Tagged(descs, "score") = {} THEN 0
    ELSE IF descs[LastIn(Tagged(descs, "score"))].numeric
    THEN descs[LastIn(Tagged(descs, "score"))].val
    ELSE 0

\* the last READY_TO_PLAN line says true
SaysReady(descs) ==
    /\ Tagged(descs, "ready") # {}
    /\ descs[LastIn(Tagged(descs, "ready"))].flag = TRUE_STR

\* there is no QUESTION line, or the last one is empty
NoQuestion(descs) ==
    \/ Tagged(descs, "question") = {}
    \/ descs[LastIn(Tagged(descs, "question"))].q = <<>>

\* C7: the returned sufficiency score is an integer in [0,100]: a stated
\* value below 0 gives 0, one above 100 gives 100, and a missing or
\* non-numeric SUFFICIENCY_SCORE line gives 0.
C7_ScoreClamped ==
    pc = "done" =>
        /\ result.sufficiency_score \in 0..100
        /\ oracle.kind \in TextKinds =>
               result.sufficiency_score =
                   IF StatedScore(inp.lines) < 0 THEN 0
                   ELSE IF StatedScore(inp.lines) > 100 THEN 100
                   ELSE StatedScore(inp.lines)

\* C7 happens: a response that states the score 150 is returned as 100
C7_OverRangeScoreReturned ==
    /\ pc = "done"
    /\ oracle.kind = "content"
    /\ inp.lines = <<[tag |-> "score", numeric |-> TRUE, val |-> 150]>>
    /\ result.sufficiency_score = 100

\* C8: ready_to_plan is true whenever the parsed score is >= 80, whatever
\* the READY_TO_PLAN line says and whether it is present, absent or before
\* the SUFFICIENCY_SCORE line; and it is true below 80 when the
\* READY_TO_PLAN line says true.
C8_ReadyWheneverScoreHigh ==
    (pc = "done" /\ oracle.kind \in TextKinds) =>
        /\ StatedScore(inp.lines) >= 80 => result.ready_to_plan
        /\ (StatedScore(inp.lines) < 80 /\ SaysReady(inp.lines)) => result.ready_to_plan

\* the response QUESTION: q / SUFFICIENCY_SCORE: s / READY_TO_PLAN: f with q
\* non-empty, s in [0,100] and f true or false
ThreeTaggedLines(descs) ==
    /\ Len(descs) = 3
    /\ descs[1].tag = "question" /\ descs[1].q # <<>>
    /\ descs[2].tag = "score" /\ descs[2].numeric /\ descs[2].val \in 0..100
    /\ descs[3].tag = "ready" /\ descs[3].flag \in {TRUE_STR, FALSE_STR}

\* C9: the three tagged lines QUESTION: q, SUFFICIENCY_SCORE: s,
\* READY_TO_PLAN: f give {q, s, f = true or s >= 80}; a missing or empty
\* QUESTION line gives the default question.
C9_TaggedLinesParsed ==
    (pc = "done" /\ oracle.kind \in TextKinds) =>
        /\ ThreeTaggedLines(inp.lines) =>
               result = [question          |-> inp.lines[1].q,
                         sufficiency_score |-> inp.lines[2].val,
                         ready_to_plan     |-> (inp.lines[3].flag = TRUE_STR
                                                \/ inp.lines[2].val >= 80)]
        /\ NoQuestion(inp.lines) => result.question = DefaultQuestion

\* C9 happens: What is the deadline? / 20 / false
C9_DeadlineQuestionReturned ==
    /\ pc = "done"
    /\ oracle.kind = "content"
    /\ inp.lines = << [tag |-> "question", q |-> TheQuestion],
                      [tag |-> "score", numeric |-> TRUE, val |-> 20],
                      [tag |-> "ready", flag |-> FALSE_STR] >>
    /\ result = [question |-> TheQuestion, sufficiency_score |-> 20,
                 ready_to_plan |-> FALSE]

\* C10: generate_question never raises; it returns a non-empty question, a
\* score in [0,100] and a boolean readiness, and exactly the fallback
\* (fallback question, 30, false) when the Oracle call or the parsing raises.
C10_NeverRaisesFallback ==
    pc = "done" =>
        /\ ~raised
        /\ result.question # <<>>
        /\ result.sufficiency_score \in 0..100
        /\ result.ready_to_plan \in BOOLEAN
        /\ oracle.kind \in {"raise", "content_nontext"} => result = Fallback

\* C10 happens: the Oracle call raised and the fallback was returned
C10_OracleRaisedFallbackReturned ==
    /\ pc = "done"
    /\ oracle.kind = "raise"
    /\ chat_history # <<>>
    /\ ~raised
    /\ result = Fallback

---------------------------------------------------------------------------
(* DBHandler (src/src/db_handler.py): the Context Store.  A collection is   *)
(* the sequence of its entries; an entry has the id it was added under,    *)
(* its document and, from its metadata, where it came from.                *)

CANDIDATE_ == <<"c","a","n","d","i","d","a","t","e","_">>
BACKLOG_ == <<"b","a","c","k","l","o","g","_">>
CONTEXT_ == <<"c","o","n","t","e","x","t","_">>
CHUNK_ == <<"_","c","h","u","n","k","_">>

\* collection.get()['ids']
Ids(collection) == [k \in DOMAIN collection |-> collection[k].id]

\* the id if it did not count the entries of the collection
UncountedId(prefix, size) == prefix \o IntToStr(0)

\* f"context_{len(...)}", f"backlog_{len(...)}", f"candidate_{len(...)}"
NumberedId(prefix, size) == prefix \o IntToStr(size)

\* lines 61-68: one entry per chunk, ids <candidate_id>_chunk_<i>
ChunkEntries(candidate_id, chunks, filename) ==
    [i \in DOMAIN chunks |->
        [id |-> candidate_id \o CHUNK_ \o IntToStr(i - 1), document |-> chunks[i],
         source |-> filename]]

\* add_resume(text, metadata) with candidate_id None; chunks is
\* _chunk_text(text)
AddResume(st, chunks, filename) ==
    [st EXCEPT !.resumes =
        @ \o ChunkEntries(NumberedId(CANDIDATE_, Len(Ids(st.resumes))), chunks, filename)]

\* add_backlog_item(text, metadata, item_id)
AddBacklogItem(st, text, filename, item_id) ==
    [st EXCEPT !.backlog =
        Append(@, [id |-> IF item_id = None
                          THEN NumberedId(BACKLOG_, Len(Ids(st.backlog)))
                          ELSE item_id,
                   document |-> text, source |-> filename])]

\* add_context(text, metadata); line 108 sets the metadata type after the
\* caller's metadata, so the caller's type is overwritten
AddContext(st, text, metadata_type) ==
    [st EXCEPT !.project_context =
        Append(@, [id |-> NumberedId(CONTEXT_, Len(Ids(st.project_context))),
                   document |-> text, source |-> "interview_response"])]

\* reset_db() if project_context were left out
ResetDbUploadsOnly(st) == [st EXCEPT !.resumes = <<>>, !.backlog = <<>>]

\* reset_db(): the three collections are deleted and created again
ResetDb(st) == EmptyStore

---------------------------------------------------------------------------
(* The Knowledge Base tab of src/main.py: batches of uploaded files.       *)

MaxBatch == 3     \* files of one upload
MaxStore == 2     \* a collection this large takes no further batch

PDF == <<".","p","d","f">>
JSON == <<".","j","s","o","n">>
ResumeText == <<"r","e","s","u","m","e">>
TicketText == <<"t","i","c","k","e","t">>

\* the i-th file of a resume upload; a corrupt file makes parse_pdf raise.
\* chunks is what _chunk_text makes of the text: every second resume is
\* long enough for two chunks.
ResumeFile(i, kind) ==
    [name   |-> <<"r">> \o IntToStr(i) \o PDF,
     kind   |-> kind,
     chunks |-> IF i % 2 = 0 THEN <<ResumeText, ResumeText>> ELSE <<ResumeText>>]

\* the i-th file of a backlog upload, holding one item; a corrupt file makes
\* parse_csv_backlog / parse_json_backlog raise.  Every second item has no
\* ticket_id key, so item.get("ticket_id") is None.
BacklogFile(i, kind) ==
    [name  |-> <<"b">> \o IntToStr(i) \o JSON,
     kind  |-> kind,
     items |-> << [ticket_id   |-> IF i % 2 = 0 THEN None
                                   ELSE <<"T", "-">> \o IntToStr(100 + i),
                   description |-> TicketText] >>]

FileKinds == {"valid", "corrupt"}
Batches == UNION {[1..k -> FileKinds] : k \in 0..MaxBatch}

ResumeFiles(batch) == [i \in DOMAIN batch |-> ResumeFile(i, batch[i])]
BacklogFiles(batch) == [i \in DOMAIN batch |-> BacklogFile(i, batch[i])]

\* main.py lines 189-205: one resume file, in its own try block
ResumeStep(acc, file) ==
    IF file.kind = "corrupt"
    THEN [acc EXCEPT !.errors = @ + 1]
    ELSE [acc EXCEPT !.store = AddResume(@, file.chunks, file.name),
                     !.ingested = Append(@, file.name)]

\* main.py lines 188-205
RECURSIVE ResumeLoop(_, _, _)
ResumeLoop(files, n, acc) ==
    IF n = 0 THEN acc ELSE ResumeStep(ResumeLoop(files, n - 1, acc), files[n])

\* main.py lines 229-243: the items of one parsed file
RECURSIVE AddItems(_, _, _, _)
AddItems(st, items, n, filename) ==
    IF n = 0 THEN st
    ELSE AddBacklogItem(AddItems(st, items, n - 1, filename),
                        items[n].description, filename, items[n].ticket_id)

\* main.py lines 223-243: one backlog file; the exception of a corrupt file
\* leaves the loop (the try block of line 221 is around the loop)
BacklogStep(acc, file) ==
    IF acc.errors > 0 THEN acc
    ELSE IF file.kind = "corrupt"
    THEN [acc EXCEPT !.errors = @ + 1]
    ELSE [acc EXCEPT !.store = AddItems(@, file.items, Len(file.items), file.name),
                     !.ingested = Append(@, file.name)]

\* main.py lines 221-247
RECURSIVE BacklogLoop(_, _, _)
BacklogLoop(files, n, acc) ==
    IF n = 0 THEN acc ELSE BacklogStep(BacklogLoop(files, n - 1, acc), files[n])

StartOfBatch(st) == [store |-> st, errors |-> 0, ingested |-> <<>>]

\* the script run is not the rerun that follows an answer (line 397)
UserTurn == pc = "session" /\ ~session.pending_question_generation

\* the outcome of a batch: the store, and what the page reported
BatchDone(name, batch, r) ==
    /\ store' = r.store
    /\ op' = [name |-> name, failed |-> r.errors > 0, batch |-> batch,
              errors |-> r.errors, ingested |-> r.ingested]
    /\ UNCHANGED <<pc, inp, plan_text, df, raised, chat_history, oracle, result,
                   session, callers>>

\* main.py lines 185-207: Process Resumes
ProcessResumes(batch) ==
    /\ UserTurn
    /\ Len(store.resumes) < MaxStore
    /\ \E r \in {ResumeLoop(ResumeFiles(batch), Len(batch), StartOfBatch(store))} :
           BatchDone("resumes", batch, r)

\* the ticket ids of the batch that the backlog collection already holds
KnownTickets(batch) ==
    {i \in DOMAIN batch :
        \E k \in DOMAIN store.backlog :
            store.backlog[k].id = BacklogFile(i, batch[i]).items[1].ticket_id}

\* main.py lines 218-249: Process Backlog (of tickets not uploaded before)
ProcessBacklog(batch) ==
    /\ UserTurn
    /\ Len(store.backlog) < MaxStore
    /\ KnownTickets(batch) = {}
    /\ \E r \in {BacklogLoop(BacklogFiles(batch), Len(batch), StartOfBatch(store))} :
           BatchDone("backlog", batch, r)

\* main.py lines 137-148: Clear Project Memory
ClearProjectMemory ==
    /\ UserTurn
    /\ store' = ResetDb(store)
    /\ chat_history' = <<>>
    /\ session' = [session EXCEPT !.sufficiency_score = 0,
                                  !.ready_to_plan = FALSE,
                                  !.current_question = <<>>,
                                  !.sprint_plan = None,
                                  !.sprint_plan_table = NoTable,
                                  !.sprint_plan_full_text = None]
    /\ op' = [name |-> "reset", failed |-> FALSE,
              turns |-> Len(chat_history),
              plan |-> session.sprint_plan # None,
              entries |-> Len(store.resumes) + Len(store.backlog)
                          + Len(store.project_context)]
    /\ UNCHANGED <<pc, inp, plan_text, df, raised, oracle, result, callers>>

IngestInit ==
    /\ pc = "session"
    /\ inp = [kind |-> "session"]
    /\ plan_text = <<>>
    /\ df = NoFrame
    /\ raised = FALSE
    /\ chat_history = <<>>
    /\ oracle = NoOracle
    /\ result = NoResult
    /\ SessionUnused

IngestNext ==
    \/ \E batch \in Batches : ProcessResumes(batch)
    \/ \E batch \in Batches : ProcessBacklog(batch)
    \/ ClearProjectMemory

SpecIngest == IngestInit /\ [][IngestNext]_vars

\* exactly one file of the batch is corrupt
OneCorrupt(batch) == Cardinality({i \in DOMAIN batch : batch[i] = "corrupt"}) = 1

\* the collection a batch goes to
CollectionOf(name) == IF name = "resumes" THEN store.resumes ELSE store.backlog
FileOf(name, i, kind) ==
    IF name = "resumes" THEN ResumeFile(i, kind) ELSE BacklogFile(i, kind)

\* C12: in a batch of resumes or backlog files with one corrupt file every
\* other file is processed and stored, wherever the corrupt file stands, and
\* exactly one error is reported.
C12_OtherFilesIngested ==
    (op.name \in {"resumes", "backlog"} /\ OneCorrupt(op.batch)) =>
        /\ op.errors = 1
        /\ Len(op.ingested) = Len(op.batch) - 1
        /\ \A i \in DOMAIN op.batch :
               op.batch[i] = "valid" =>
                   \E k \in DOMAIN CollectionOf(op.name) :
                       CollectionOf(op.name)[k].source = FileOf(op.name, i, "valid").name

---------------------------------------------------------------------------
(* The Context Interview tab of src/main.py.                               *)

MaxHistory == 3   \* the user adds nothing to a chat history this long

\* what the Oracle may do in a turn of the session: raise, or answer with
\* the three tagged lines (score 80 and true, score 20 and false)
SessionOracles ==
    { [kind |-> "raise", text |-> <<>>],
      [kind |-> "content",
       text |-> RenderResponse(<< [tag |-> "question", q |-> TheQuestion],
                                  [tag |-> "score", numeric |-> TRUE, val |-> 80],
                                  [tag |-> "ready", flag |-> TRUE_STR] >>)],
      [kind |-> "content",
       text |-> RenderResponse(<< [tag |-> "question", q |-> TheQuestion],
                                  [tag |-> "score", numeric |-> TRUE, val |-> 20],
                                  [tag |-> "ready", flag |-> FALSE_STR] >>)],
      [kind |-> "content",
       text |-> RenderResponse(<< [tag |-> "question", q |-> TheQuestion],
                                  [tag |-> "score", numeric |-> TRUE, val |-> 20],
                                  [tag |-> "ready", flag |-> TRUE_STR] >>)],
      [kind |-> "content",
       text |-> RenderResponse(<< [tag |-> "question", q |-> TheQuestion],
                                  [tag |-> "score", numeric |-> TRUE, val |-> 150],
                                  [tag |-> "ready", flag |-> FALSE_STR] >>)] }

\* what the try statement of generate_question yields for each of them
SessionOutcomes == [o \in SessionOracles |-> TryExcept(TryBody(o))]

\* the handler if it kept the question it asked as current_question
QuestionAskedCurrent(name, r) ==
    /\ op' = [name |-> name, failed |-> FALSE]
    /\ session' = [session EXCEPT
                      !.pending_question_generation = FALSE,
                      !.current_question = r.value.question,
                      !.sufficiency_score = r.value.sufficiency_score,
                      !.ready_to_plan = r.value.ready_to_plan]
    /\ chat_history' =
           Append(chat_history, [role |-> ASSISTANT, content |-> r.value.question])

\* the handler if it left pending_question_generation as it found it
QuestionAskedStillPending(name, r) ==
    /\ op' = [name |-> name, failed |-> FALSE]
    /\ session' = [session EXCEPT
                      !.sufficiency_score = r.value.sufficiency_score,
                      !.ready_to_plan = r.value.ready_to_plan]
    /\ chat_history' =
           Append(chat_history, [role |-> ASSISTANT, content |-> r.value.question])

\* the handler if it kept only the newest question in the chat history
QuestionAskedAlone(name, r) ==
    /\ op' = [name |-> name, failed |-> FALSE]
    /\ session' = [session EXCEPT
                      !.pending_question_generation = FALSE,
                      !.sufficiency_score = r.value.sufficiency_score,
                      !.ready_to_plan = r.value.ready_to_plan]
    /\ chat_history' = <<[role |-> ASSISTANT, content |-> r.value.question]>>

\* lines 331-339 and 410-418: the result goes into the session and the
\* question into the chat history; lines 341-342 and 421-422 when the call
\* raised
QuestionAsked(name, r) ==
    IF r.raised
    THEN /\ op' = [name |-> name, failed |-> TRUE]
         /\ session' = [session EXCEPT !.pending_question_generation = FALSE]
         /\ UNCHANGED chat_history
    ELSE /\ op' = [name |-> name, failed |-> FALSE]
         /\ session' = [session EXCEPT
                           !.pending_question_generation = FALSE,
                           !.sufficiency_score = r.value.sufficiency_score,
                           !.ready_to_plan = r.value.ready_to_plan]
         /\ chat_history' =
                Append(chat_history, [role |-> ASSISTANT, content |-> r.value.question])

\* lines 325-342: Start Interview
StartInterview ==
    /\ UserTurn
    /\ chat_history = <<>> /\ session.current_question = <<>>
    /\ \E o \in SessionOracles : QuestionAsked("start", GenerateQuestionWith(<<>>, SessionOutcomes[o]))
    /\ UNCHANGED <<pc, inp, plan_text, df, raised, oracle, result, store, callers>>

\* lines 372-397: the user answers; the script reruns at once
SubmitAnswer ==
    /\ UserTurn
    /\ Len(chat_history) < MaxHistory
    /\ chat_history' = Append(chat_history, [role |-> USER, content |-> TheAnswer])
    /\ store' = AddContext(store, TheAnswer, "none")
    /\ session' = [session EXCEPT !.pending_question_generation = TRUE]
    /\ op' = [name |-> "answer", failed |-> FALSE,
              question |-> session.current_question]
    /\ UNCHANGED <<pc, inp, plan_text, df, raised, oracle, result, callers>>

\* lines 400-422: the rerun generates the next question
GenerateNextQuestion ==
    /\ pc = "session"
    /\ session.pending_question_generation
    /\ \E o \in SessionOracles :
           QuestionAsked("question", GenerateQuestionWith(chat_history, SessionOutcomes[o]))
    /\ UNCHANGED <<pc, inp, plan_text, df, raised, oracle, result, store, callers>>

---------------------------------------------------------------------------
(* The planning crew (src/src/agents/cognitive_crew.py) and the Sprint     *)
(* Plan tab of src/main.py.                                                *)

\* cognitive_crew.py line 134: the tasks of the crew, in this order
CrewTasks == <<"staffing", "scheduling", "critique">>

\* cognitive_crew.py line 135
CrewProcess == "sequential"

\* the texts the stages may produce and the string of the crew's result
Stage2Texts ==
    { RenderPlanText([kind |-> "table", order |-> <<1, 2, 3, 4, 5>>, n |-> 1,
                      sep |-> FALSE, trail |-> TRUE, cont |-> "none", gap |-> 1]),
      RenderPlanText(StandardTableInput) }
Stage3Texts ==
    { <<"A","p","p","r","o","v","e","d">>,
      <<"F","l","a","g","g","e","d",":"," ","o","v","e","r","l","o","a","d">> }
AggregateText == <<"C","r","e","w"," ","r","e","s","u","l","t">>

\* one run of the pipeline: where it raises (before the crew starts, in a
\* stage, or nowhere), the texts of stages 2 and 3, and whether the output
\* handles of the scheduler and critic tasks are set afterwards
FailedRuns ==
    [fail : {"setup", "staffing", "scheduling", "critique"},
     stage2 : {<<>>}, stage3 : {<<>>}, scheduler_set : {FALSE}, critic_set : {FALSE}]
CompletedRuns ==
    [fail : {"none"}, stage2 : Stage2Texts, stage3 : Stage3Texts,
     scheduler_set : BOOLEAN, critic_set : BOOLEAN]
PipelineRuns == FailedRuns \cup CompletedRuns

\* Process.sequential: the tasks run in list order from the k-th on, each
\* after the one before it has returned; a task that raises ends the run
RECURSIVE RunSequential(_, _, _)
RunSequential(tasks, k, fail) ==
    IF k > Len(tasks) THEN <<>>
    ELSE IF tasks[k] = fail
    THEN << [stage |-> tasks[k], event |-> "start"], [stage |-> tasks[k], event |-> "raise"] >>
    ELSE << [stage |-> tasks[k], event |-> "start"], [stage |-> tasks[k], event |-> "return"] >>
         \o RunSequential(tasks, k + 1, fail)

\* a kickoff that starts every task before any has returned
KickoffTogether(run) ==
    [k \in 1..(2 * Len(CrewTasks)) |->
        IF k <= Len(CrewTasks) THEN [stage |-> CrewTasks[k], event |-> "start"]
        ELSE [stage |-> CrewTasks[k - Len(CrewTasks)], event |-> "return"]]

\* crew.kickoff() (main.py lines 449 and 543): the events of the run
Kickoff(run) ==
    IF run.fail = "setup" \/ CrewProcess # "sequential" THEN <<>>
    ELSE RunSequential(CrewTasks, 1, run.fail)

\* not x, for a text or None
Falsy(x) == x = None \/ x = <<>>

\* main.py lines 454-455: str(task.output) when the handle is set
OwnOutput(is_set, text) == IF is_set THEN text ELSE None

\* the fallback if it took the crew's result whatever the handle holds
OutputAlwaysResult(is_set, text) == AggregateText

\* main.py lines 460-461 and 464-465: the same handle through crew.tasks,
\* else the string of the crew's result
OutputOrResult(is_set, text) ==
    IF Len(CrewTasks) >= 3 /\ is_set THEN text ELSE AggregateText

\* main.py lines 453-470: scheduler_output and critic_output.  hasattr and
\* str() of a task output do not raise, so the except of line 466 is not
\* entered.
ExtractOutputs(run) ==
    IF Falsy(OwnOutput(run.scheduler_set, run.stage2))
       \/ Falsy(OwnOutput(run.critic_set, run.stage3))
    THEN [scheduler_output |-> OutputOrResult(run.scheduler_set, run.stage2),
          critic_output    |-> OutputOrResult(run.critic_set, run.stage3)]
    ELSE [scheduler_output |-> OwnOutput(run.scheduler_set, run.stage2),
          critic_output    |-> OwnOutput(run.critic_set, run.stage3)]

\* parse_sprint_plan_output on each text that can be the scheduler output
ParsedPlans ==
    [t \in Stage2Texts \cup {AggregateText} |-> ParseSprintPlanOutput(t)]

\* the handler if it stored the scheduler text as the report
StorePlanSwapped(name, run, out, parsed) ==
    /\ op' = [name |-> name, failed |-> FALSE, run |-> run, trace |-> Kickoff(run),
              scheduler_output |-> out.scheduler_output,
              critic_output |-> out.critic_output]
    /\ session' = [session EXCEPT !.sprint_plan = out.scheduler_output,
                                  !.sprint_plan_table = parsed.df,
                                  !.sprint_plan_full_text = out.critic_output]

\* main.py lines 472-478 and 562-568: the table is parsed and the three
\* plan fields are stored; an exception of the parser is caught by the
\* handler's try block
StorePlan(name, run, out, parsed) ==
    IF parsed.raised
    THEN /\ op' = [name |-> name, failed |-> TRUE, run |-> run, trace |-> Kickoff(run),
                   scheduler_output |-> out.scheduler_output,
                   critic_output |-> out.critic_output]
         /\ UNCHANGED session
    ELSE /\ op' = [name |-> name, failed |-> FALSE, run |-> run, trace |-> Kickoff(run),
                   scheduler_output |-> out.scheduler_output,
                   critic_output |-> out.critic_output]
         /\ session' = [session EXCEPT !.sprint_plan = out.critic_output,
                                       !.sprint_plan_table = parsed.df,
                                       !.sprint_plan_full_text = out.critic_output]

\* the handler if it cleared the stored report before running the pipeline
RunPipelineClearing(name, run) ==
    IF run.fail # "none"
    THEN /\ op' = [name |-> name, failed |-> TRUE, run |-> run, trace |-> Kickoff(run),
                   scheduler_output |-> None, critic_output |-> None]
         /\ session' = [session EXCEPT !.sprint_plan = None]
    ELSE \E out \in {ExtractOutputs(run)} :
             \E parsed \in {ParsedPlans[out.scheduler_output]} :
                 StorePlan(name, run, out, parsed)

\* main.py lines 439-484 and 538-572: the pipeline and what follows it
RunPipeline(name, run) ==
    IF run.fail # "none"
    THEN /\ op' = [name |-> name, failed |-> TRUE, run |-> run, trace |-> Kickoff(run),
                   scheduler_output |-> None, critic_output |-> None]
         /\ UNCHANGED session
    ELSE \E out \in {ExtractOutputs(run)} :
             \E parsed \in {ParsedPlans[out.scheduler_output]} :
                 StorePlan(name, run, out, parsed)

\* main.py lines 432-484: Generate Sprint Plan
GenerateSprintPlan ==
    /\ UserTurn
    /\ session.ready_to_plan
    /\ \E run \in PipelineRuns : RunPipeline("plan", run)
    /\ UNCHANGED <<pc, inp, plan_text, df, raised, chat_history, oracle, result,
                   store, callers>>

CORRECTION_TAG == <<"C","O","R","R","E","C","T","I","O","N",":"," ">>
CorrectionTag == <<"C","o","r","r","e","c","t","i","o","n",":"," ">>
CorrectionText ==
    <<"S","a","r","a","h"," ","i","s"," ","o","n"," ","v","a","c","a","t","i","o","n">>

\* main.py lines 487-574: Re-generate Plan with Corrections; the button is
\* shown when a plan is stored
RegenerateWithCorrections(correction_text) ==
    /\ UserTurn
    /\ session.ready_to_plan
    /\ ~Falsy(session.sprint_plan)
    /\ Len(chat_history) < MaxHistory
    /\ IF correction_text = <<>>
       THEN /\ op' = [name |-> "no_correction", failed |-> FALSE]
            /\ UNCHANGED <<session, store, chat_history>>
       ELSE /\ store' = AddContext(store, CORRECTION_TAG \o correction_text, "correction")
            /\ chat_history' =
                   Append(chat_history,
                          [role |-> USER, content |-> CorrectionTag \o correction_text])
            /\ \E run \in PipelineRuns : RunPipeline("regenerate", run)
    /\ UNCHANGED <<pc, inp, plan_text, df, raised, oracle, result, callers>>

\* the uploads tried within a session
SessionBatches == { <<"valid">>, <<"valid", "valid">>, <<"valid", "corrupt", "valid">> }

SessionInit == IngestInit

SessionNext ==
    \/ StartInterview
    \/ SubmitAnswer
    \/ GenerateNextQuestion
    \/ GenerateSprintPlan
    \/ \E c \in {<<>>, CorrectionText} : RegenerateWithCorrections(c)
    \/ \E batch \in SessionBatches : ProcessResumes(batch)
    \/ \E batch \in SessionBatches : ProcessBacklog(batch)
    \/ ClearProjectMemory

SpecSession == SessionInit /\ [][SessionNext]_vars


\* ---------------------------------------------------------------------
\* Two sessions of the application adding to the one Context Store.  Each
\* session has its own DBHandler over the same persist directory; the add
\* methods read the size of the collection and then call collection.add,
\* two statements with nothing held between them.
\* ---------------------------------------------------------------------

NumCallers == 2
MaxAdds == 2

Callers == 1..NumCallers
Collections == {"resumes", "backlog", "project_context"}

\* the prefix of the ids an add method derives
PrefixOf(coll) ==
    IF coll = "resumes" THEN CANDIDATE_
    ELSE IF coll = "backlog" THEN BACKLOG_ ELSE CONTEXT_

\* a caller that is in no add method; last is how its last add ended
Idle(last) == [pc |-> "idle", collection |-> "none", size |-> 0, id |-> <<>>, last |-> last]

\* lines 56, 82 and 103: the id made of the size that get() returned
Derived(coll, st, last) ==
    [pc |-> "derived", collection |-> coll, size |-> Len(Ids(st[coll])),
     id |-> NumberedId(PrefixOf(coll), Len(Ids(st[coll]))), last |-> last]

\* lines 59-63, 85-87 and 106-108: the entries handed to collection.add; the
\* resume is one chunk
EntriesOf(coll, id) ==
    IF coll = "resumes" THEN ChunkEntries(id, <<ResumeText>>, <<>>)
    ELSE IF coll = "backlog" THEN <<[id |-> id, document |-> TicketText, source |-> <<>>]>>
    ELSE <<[id |-> id, document |-> TheAnswer, source |-> "interview_response"]>>

\* an id of the entries is in the collection already
Duplicate(collection, entries) ==
    \E i \in DOMAIN entries : \E k \in DOMAIN collection : collection[k].id = entries[i].id

\* size read and add under a lock held per collection
ReadSizeLocked(c, coll) ==
    /\ pc = "store"
    /\ callers[c].pc = "idle"
    /\ \A d \in Callers : ~(callers[d].pc = "derived" /\ callers[d].collection = coll)
    /\ Len(store[coll]) < MaxAdds
    /\ callers' = [callers EXCEPT ![c] = Derived(coll, store, callers[c].last)]
    /\ UNCHANGED <<pc, inp, plan_text, df, raised, chat_history, oracle, result,
                   session, store, op>>

\* lines 56, 82 (item_id None) and 103: caller c enters an add method and
\* derives its id; nothing keeps another caller out
ReadSize(c, coll) ==
    /\ pc = "store"
    /\ callers[c].pc = "idle"
    /\ Len(store[coll]) < MaxAdds
    /\ callers' = [callers EXCEPT ![c] = Derived(coll, store, callers[c].last)]
    /\ UNCHANGED <<pc, inp, plan_text, df, raised, chat_history, oracle, result,
                   session, store, op>>

\* lines 64-68, 84-88 and 105-109: collection.add under the derived id.  An
\* id that exists is not stored again: the store either raises or drops the
\* entry, by its version
CollectionAdd(c) ==
    /\ pc = "store"
    /\ callers[c].pc = "derived"
    /\ \E entries \in {EntriesOf(callers[c].collection, callers[c].id)} :
           IF Duplicate(store[callers[c].collection], entries)
           THEN /\ \E last \in {"duplicate_raised", "duplicate_dropped"} :
                       callers' = [callers EXCEPT ![c] = Idle(last)]
                /\ UNCHANGED store
           ELSE /\ callers' = [callers EXCEPT ![c] = Idle("stored")]
                /\ store' = [store EXCEPT ![callers[c].collection] = @ \o entries]
    /\ UNCHANGED <<pc, inp, plan_text, df, raised, chat_history, oracle, result,
                   session, op>>

StoreInit ==
    /\ pc = "store"
    /\ inp = [kind |-> "store"]
    /\ plan_text = <<>>
    /\ df = NoFrame
    /\ raised = FALSE
    /\ chat_history = <<>>
    /\ oracle = NoOracle
    /\ result = NoResult
    /\ session = InitialSession
    /\ store = EmptyStore
    /\ op = NoOp
    /\ callers = [c \in Callers |-> Idle("none")]

StoreNext ==
    \/ \E c \in Callers : \E coll \in Collections : ReadSize(c, coll)
    \/ \E c \in Callers : CollectionAdd(c)

SpecStore == StoreInit /\ [][StoreNext]_vars

\* ---------------------------------------------------------------------
\* Session claims
\* ---------------------------------------------------------------------

\* The three plan fields of the session state
PlanFields(sess) ==
    <<sess.sprint_plan, sess.sprint_plan_table, sess.sprint_plan_full_text>>

PlanOps == {"plan", "regenerate"}

\* C11: once ready_to_plan is true, no step other than the reset operation
\* sets it back to false.
C11_ReadyIsKept ==
    [][(session.ready_to_plan /\ op'.name # "reset") => session'.ready_to_plan]_vars

\* C13: a pipeline run that raises leaves the three plan fields exactly as
\* they were, and the fields are never updated one without the others: they
\* are all None or all set, the report and the full text being the same text.
C13_FailedRunKeepsPlan ==
    [][/\ (op'.name \in PlanOps /\ op'.failed) =>
              PlanFields(session') = PlanFields(session)
       /\ session'.sprint_plan = session'.sprint_plan_full_text
       /\ (session'.sprint_plan = None) = (session'.sprint_plan_table = NoTable)]_vars

\* A stored plan has survived a regeneration whose pipeline raised
C13_PlanKeptAfterFailure ==
    /\ op.name = "regenerate"
    /\ op.failed
    /\ session.sprint_plan # None
    /\ session.sprint_plan_table # NoTable

\* What C14 names: chat history, score and readiness, plan fields, collections
Committed(sess, history, st) ==
    <<history, sess.sufficiency_score, sess.ready_to_plan, PlanFields(sess), st>>

\* C14: an operation that fails leaves the chat history, the score and
\* readiness, the plan fields and the three collections as they were before it.
C14_FailedOperationChangesNothing ==
    [][(op'.name \in {"start", "question", "backlog", "plan", "regenerate", "reset"}
           /\ op'.failed) =>
          Committed(session', chat_history', store') =
              Committed(session, chat_history, store)]_vars

\* The order the pipeline is specified to have: Staffing Match, Schedule
\* Synthesis, Critique
StageOrder == <<"staffing", "scheduling", "critique">>

\* Every start is the first stage or follows at once the return of the stage
\* before it; every return or raise follows at once the start of its stage
OneAfterTheOther(trace) ==
    \A i \in DOMAIN trace :
        IF trace[i].event = "start"
        THEN IF i = 1 THEN trace[i].stage = StageOrder[1]
             ELSE /\ trace[i - 1].event = "return"
                  /\ \E n \in 1..(Len(StageOrder) - 1) :
                         /\ trace[i - 1].stage = StageOrder[n]
                         /\ trace[i].stage = StageOrder[n + 1]
        ELSE i > 1 /\ trace[i - 1] = [stage |-> trace[i].stage, event |-> "start"]

\* C15: in a pipeline run the stages execute in the order staffing,
\* scheduling, critique, each starting only after the one before it has
\* returned; a run that completes has run all three.
C15_StagesInOrder ==
    op.name \in PlanOps =>
        /\ OneAfterTheOther(op.trace)
        /\ ~op.failed => Len(op.trace) = 2 * Len(StageOrder)

\* A completed run: scheduling started right after staffing returned
C15_CompletedRun ==
    /\ op.name = "plan"
    /\ ~op.failed
    /\ op.trace[2] = [stage |-> "staffing", event |-> "return"]
    /\ op.trace[3] = [stage |-> "scheduling", event |-> "start"]
    /\ op.trace[6] = [stage |-> "critique", event |-> "return"]

\* C16: after a pipeline run that did not raise, the scheduler text and the
\* critic text are non-null strings: the stage's own output when it is
\* available, the crew's aggregate result string otherwise.
C16_OutputsAreTexts ==
    (op.name \in PlanOps /\ ~op.failed) =>
        /\ IsText(op.scheduler_output)
        /\ IsText(op.critic_output)
        /\ op.scheduler_output =
               IF op.run.scheduler_set THEN op.run.stage2 ELSE AggregateText
        /\ op.critic_output =
               IF op.run.critic_set THEN op.run.stage3 ELSE AggregateText

\* The scheduler's own output next to the aggregate string for the critic
C16_OneOutputMissing ==
    /\ op.name \in PlanOps
    /\ ~op.failed
    /\ op.run.scheduler_set /\ ~op.run.critic_set
    /\ op.scheduler_output = op.run.stage2
    /\ op.critic_output = AggregateText

\* C17 as stated: after a successful generation or regeneration the report
\* and the full text are the Stage-3 text of the run and the table is the
\* extraction of the run's Stage-2 text.
C17_PlanIsStageTexts ==
    (op.name \in PlanOps /\ ~op.failed) =>
        /\ session.sprint_plan = op.run.stage3
        /\ session.sprint_plan_full_text = op.run.stage3
        /\ session.sprint_plan_table = ParseSprintPlanOutput(op.run.stage2).df

\* C17 amended: the report and the full text are the Stage-3 text when the
\* critic's output is available and the aggregate result string otherwise;
\* the table is the extraction of the Stage-2 text when the scheduler's
\* output is available and of the aggregate result string otherwise; the
\* three fields hold nothing of an earlier plan.
C17_PlanIsSelectedTexts ==
    (op.name \in PlanOps /\ ~op.failed) =>
        /\ session.sprint_plan =
               IF op.run.critic_set THEN op.run.stage3 ELSE AggregateText
        /\ session.sprint_plan_full_text = session.sprint_plan
        /\ session.sprint_plan_table =
               ParseSprintPlanOutput(
                   IF op.run.scheduler_set THEN op.run.stage2 ELSE AggregateText).df

\* A regeneration stored the critic's report and a table with a row
C17_RegeneratedPlanStored ==
    /\ op.name = "regenerate"
    /\ ~op.failed
    /\ op.run.scheduler_set /\ op.run.critic_set
    /\ session.sprint_plan = op.run.stage3
    /\ session.sprint_plan_table # NoTable
    /\ session.sprint_plan_table.rows # <<>>

\* C18: after the reset operation the chat history is empty, the score is 0,
\* ready_to_plan is false, the current question is empty, the three plan
\* fields hold nothing and the three collections are empty.
C18_ResetClearsAll ==
    op.name = "reset" =>
        /\ chat_history = <<>>
        /\ session.sufficiency_score = 0
        /\ ~session.ready_to_plan
        /\ session.current_question = <<>>
        /\ PlanFields(session) = <<None, NoTable, None>>
        /\ store.resumes = <<>>
        /\ store.backlog = <<>>
        /\ store.project_context = <<>>

\* A reset of a session that had a conversation, a plan and stored entries
C18_ResetOfUsedSession ==
    /\ op.name = "reset"
    /\ op.turns > 1
    /\ op.plan
    /\ op.entries > 1
    /\ chat_history = <<>>

\* a is an initial part of b
IsPrefix(a, b) == Len(a) <= Len(b) /\ SubSeq(b, 1, Len(a)) = a

\* C19: outside the reset operation the chat history is append-only: every
\* step keeps the existing entries, unchanged and in place, and at most adds
\* entries after them.
C19_HistoryAppendOnly ==
    [][op'.name # "reset" => IsPrefix(chat_history, chat_history')]_vars

\* A history built by the opening, an answer and a generated question
C19_ThreeTurns ==
    /\ Len(chat_history) >= 3
    /\ chat_history[1].role = ASSISTANT
    /\ chat_history[2].role = USER
    /\ chat_history[3].role = ASSISTANT
    /\ op.name = "question"

\* C20: the id of an add is made of the collection size its caller read
\* before the add and of nothing else, and a caller inside an add method
\* keeps no other caller from reading the size of the same collection: two
\* callers that read the same size hold the same id.
C20_IdFromSizeReadUnlocked ==
    /\ \A c \in Callers :
           callers[c].pc = "derived" =>
               /\ callers[c].id = PrefixOf(callers[c].collection) \o IntToStr(callers[c].size)
               /\ callers[c].size <= Len(store[callers[c].collection])
    /\ \A c \in Callers : \A d \in Callers \ {c} :
           (/\ callers[c].pc = "derived"
            /\ callers[d].pc = "idle"
            /\ Len(store[callers[c].collection]) < MaxAdds) =>
               ENABLED ReadSize(d, callers[c].collection)
    /\ \A c \in Callers : \A d \in Callers \ {c} :
           (/\ callers[c].pc = "derived" /\ callers[d].pc = "derived"
            /\ callers[c].collection = callers[d].collection
            /\ callers[c].size = callers[d].size) =>
               callers[c].id = callers[d].id

\* Two callers are inside add_context with the same id, context_1
C20_SameIdDerived ==
    /\ callers[1].pc = "derived" /\ callers[2].pc = "derived"
    /\ callers[1].collection = "project_context"
    /\ callers[2].collection = "project_context"
    /\ callers[1].id = callers[2].id
    /\ callers[1].id = CONTEXT_ \o <<"1">>

---------------------------------------------------------------------------
(* src/src/config.py: the model id handed to LiteLLM.                      *)

LLAMA3 == <<"l","l","a","m","a","3">>
SLASH == <<"/">>
MODELS_ == <<"m","o","d","e","l","s","/">>

\* (x or "")
OrEmpty(x) == IF x = None THEN <<>> ELSE x

\* line 70: bu and ("localhost" in bu or "127.0.0.1" in bu)
IsLocal(bu) == bu # <<>> /\ (Contains(bu, <<"l","o","c","a","l","h","o","s","t">>) \/ Contains(bu, <<"1","2","7",".","0",".","0",".","1">>))

\* lines 72-82 with the prefix checks ahead of the local check
PrefixedFirst(mn, bu) ==
    IF StartsWith(mn, <<"g","p","t","-">>) \/ StartsWith(mn, <<"o","1","-">>) \/ StartsWith(mn, <<"o","3","-">>)
    THEN <<"o","p","e","n","a","i","/">> \o mn
    ELSE IF StartsWith(mn, <<"c","l","a","u","d","e","-">>) THEN <<"a","n","t","h","r","o","p","i","c","/">> \o mn
    ELSE IF StartsWith(mn, <<"g","e","m","i","n","i">>) THEN <<"g","e","m","i","n","i","/">> \o mn
    ELSE IF IsLocal(bu) THEN <<"o","l","l","a","m","a","/">> \o mn
    ELSE mn

\* lines 72-82: mn has no slash
Prefixed(mn, bu) ==
    IF IsLocal(bu) THEN <<"o","l","l","a","m","a","/">> \o mn
    ELSE IF StartsWith(mn, <<"g","p","t","-">>) \/ StartsWith(mn, <<"o","1","-">>) \/ StartsWith(mn, <<"o","3","-">>)
    THEN <<"o","p","e","n","a","i","/">> \o mn
    ELSE IF StartsWith(mn, <<"c","l","a","u","d","e","-">>) THEN <<"a","n","t","h","r","o","p","i","c","/">> \o mn
    ELSE IF StartsWith(mn, <<"g","e","m","i","n","i">>) THEN <<"g","e","m","i","n","i","/">> \o mn
    ELSE mn

\* lines 63-82: mn is not empty
Normalized(mn, bu) ==
    IF Contains(mn, SLASH)
    THEN IF StartsWith(mn, MODELS_)
         THEN <<"g","e","m","i","n","i","/">> \o SubSeq(mn, Len(MODELS_) + 1, Len(mn))
         ELSE mn
    ELSE Prefixed(mn, bu)

\* lines 58-60
NameOrDefault(mn) == IF mn = <<>> THEN LLAMA3 ELSE mn

\* ModelConfig._normalize_model_id(model_name, base_url)
NormalizeModelId(model_name, base_url) ==
    Normalized(NameOrDefault(Strip(OrEmpty(model_name))), Strip(OrEmpty(base_url)))

\* the names and base URLs a user can enter
ModelNames ==
    {None, <<>>, <<" ">>, <<"l","l","a","m","a","3">>, <<" ","l","l","a","m","a","3"," ">>, <<"g","p","t","-","4","o">>, <<"g","p","t","4">>, <<"o","1","-","m","i","n","i">>,
     <<"o","3","-","m","i","n","i">>, <<"c","l","a","u","d","e","-","3">>, <<"g","e","m","i","n","i","-","1",".","5">>, <<"g","e","m","i","n","i","X">>, <<"m","i","s","t","r","a","l">>,
     <<"m","o","d","e","l","s","/","g","e","m","i","n","i","-","1",".","5">>, <<"g","e","m","i","n","i","/","g","e","m","i","n","i","-","1",".","5">>, <<"a","/","m","o","d","e","l","s","/","b">>, <<" ","o","p","e","n","a","i","/","g","p","t","-","4","o">>}

BaseUrls ==
    {None, <<>>, <<" ">>, <<"h","t","t","p",":","/","/","l","o","c","a","l","h","o","s","t",":","1","1","4","3","4">>, <<"h","t","t","p",":","/","/","1","2","7",".","0",".","0",".","1",":","1","1","4","3","4"," ">>,
     <<"h","t","t","p","s",":","/","/","a","p","i",".","e","x","a","m","p","l","e",".","c","o","m">>}

ConfigInit ==
    /\ pc = "start"
    /\ \E n \in ModelNames : \E u \in BaseUrls :
           inp = [kind |-> "config", model_name |-> n, base_url |-> u]
    /\ plan_text = <<>>
    /\ df = NoFrame
    /\ raised = FALSE
    /\ chat_history = <<>>
    /\ oracle = NoOracle
    /\ result = NoResult
    /\ SessionUnused

\* get_llm, line 114
NormalizeCall ==
    /\ pc = "start"
    /\ inp.kind = "config"
    /\ result' = [model_id |-> NormalizeModelId(inp.model_name, inp.base_url)]
    /\ pc' = "done"
    /\ UNCHANGED <<inp, plan_text, df, raised, chat_history, oracle>>
    /\ UNCHANGED <<session, store, op, callers>>

ConfigNext == NormalizeCall

SpecConfig == ConfigInit /\ [][ConfigNext]_vars

\* The decision table of the claim for the name n and the base URL u
DecisionTable(n, u) ==
    IF Contains(n, SLASH)
    THEN IF StartsWith(n, <<"m","o","d","e","l","s","/">>)
         THEN <<"g","e","m","i","n","i","/">> \o SubSeq(n, 8, Len(n))
         ELSE n
    ELSE IF Contains(u, <<"l","o","c","a","l","h","o","s","t">>) \/ Contains(u, <<"1","2","7",".","0",".","0",".","1">>)
    THEN <<"o","l","l","a","m","a","/">> \o n
    ELSE IF \E p \in {<<"g","p","t","-">>, <<"o","1","-">>, <<"o","3","-">>} : StartsWith(n, p)
    THEN <<"o","p","e","n","a","i","/">> \o n
    ELSE IF StartsWith(n, <<"c","l","a","u","d","e","-">>) THEN <<"a","n","t","h","r","o","p","i","c","/">> \o n
    ELSE IF StartsWith(n, <<"g","e","m","i","n","i">>) THEN <<"g","e","m","i","n","i","/">> \o n
    ELSE n

GivenUrl == IF inp.base_url = None THEN <<>> ELSE inp.base_url
GivenName == IF inp.model_name = None THEN <<>> ELSE inp.model_name

\* C21 as stated: the model id follows the decision table on the name as
\* entered, an empty name standing for llama3.
C21_TableOnEnteredName ==
    (pc = "done" /\ inp.kind = "config") =>
        result.model_id =
            DecisionTable(IF GivenName = <<>> THEN <<"l","l","a","m","a","3">> ELSE GivenName, GivenUrl)

\* C21 amended: the model id follows the decision table on the name with
\* its leading and trailing whitespace removed, a name that is empty after
\* that standing for llama3.
C21_TableOnStrippedName ==
    (pc = "done" /\ inp.kind = "config") =>
        result.model_id =
            DecisionTable(IF Strip(GivenName) = <<>> THEN <<"l","l","a","m","a","3">> ELSE Strip(GivenName),
                          GivenUrl)

\* A gpt- name with a local base URL went to ollama
C21_LocalBeforePrefix ==
    /\ pc = "done" /\ inp.kind = "config"
    /\ inp.model_name = <<"g","p","t","-","4","o">>
    /\ inp.base_url = <<"h","t","t","p",":","/","/","l","o","c","a","l","h","o","s","t",":","1","1","4","3","4">>
    /\ result.model_id = <<"o","l","l","a","m","a","/","g","p","t","-","4","o">>

\* The guard of the two plan handlers: a button of the Sprint Plan tab can
\* be pressed
PlanningEnabled ==
    pc = "session" /\ ~session.pending_question_generation /\ session.ready_to_plan

\* C22: in every state in which plan generation or regeneration can be
\* started the stored sufficiency score is at least 80.
C22_PlanningNeedsScore ==
    PlanningEnabled => session.sufficiency_score >= 80

\* C23: the stored sufficiency score is an integer from 0 to 100, and is at
\* least 0 whenever ready_to_plan is true, in every state of the session:
\* after Start Interview, after an answer, after an Oracle failure, after a
\* reset.
C23_ScoreInRange ==
    pc = "session" =>
        /\ session.sufficiency_score \in Int
        /\ session.sufficiency_score >= 0
        /\ session.sufficiency_score <= 100
        /\ session.ready_to_plan \in BOOLEAN
        /\ session.ready_to_plan => session.sufficiency_score >= 0

\* The Oracle answered 150 to a user answer and 100 was stored
C23_ClampedScoreStored ==
    /\ op.name = "question"
    /\ session.sufficiency_score = 100
    /\ Len(chat_history) >= 3

\* The kinds of input of the plan extractor
ExtractKinds == {"table", "list", "prose", "free", "gap", "columns", "rescan"}

\* rows are the rows of the first tier that has any: t of the table tier,
\* r of the regex tier
FirstNonEmpty(rows, t, r) ==
    /\ t # <<>> => rows = t
    /\ t = <<>> => rows = r
    /\ rows = <<>> => (t = <<>> /\ r = <<>>)

\* the rows the regex tier makes of a text
RegexAssignments(text) ==
    [k \in DOMAIN RegexTier(text) |-> RegexTier(text)[k].row]

\* C24: the returned table holds the rows of the markdown-table tier when
\* that tier produced any, the rows of the regex tier otherwise, never rows
\* of both, and is empty only when both tiers produced nothing.
C24_FirstTierWins ==
    (pc = "done" /\ inp.kind \in ExtractKinds /\ ~raised) =>
        FirstNonEmpty(df.rows, TableTier(plan_text), RegexAssignments(plan_text))

\* A table row was returned from a text in which the regex tier finds an
\* assignment too
C24_TableRowsOnly ==
    /\ pc = "done" /\ inp.kind = "free" /\ ~raised
    /\ Len(df.rows) = 1
    /\ df.rows[1].Reasoning_Trace # SeeFullReportBelow
    /\ inp.lines = <<TableLine(Columns, TRUE), TableLine(RowData(1), TRUE), ListLine(1, TRUE, TRUE)>>

\* The scan step of the claim for a line met inside an open table section:
\* st is the section state before the line, i its 0-based number
ClaimedInSection(st, line, i) ==
    IF HasPipe(line) /\ \E k \in DOMAIN line : IsAlnum(line[k])
    THEN [st EXCEPT !.rows = Append(st.rows, [line |-> line, idx |-> i])]
    ELSE IF Strip(line) = <<>> THEN st
    ELSE IF HasPipe(line) THEN st
    ELSE IF /\ st.rows # <<>>
            /\ i - st.rows[Len(st.rows)].idx <= 5
            /\ \/ \E kw \in {<<"a","s","s","i","g","n","m","e","n","t",":">>,
                             <<"e","s","t","i","m","a","t","e",":">>,
                             <<"r","i","s","k",":">>, <<"*","*">>} :
                      Contains(Lower(line), kw)
               \/ i - st.rows[Len(st.rows)].idx <= 2
    THEN [st EXCEPT !.rows = AttachToLast(st.rows, Strip(line))]
    ELSE [st EXCEPT !.in_table_section = FALSE]

\* C25: for every line met while a table section is open the scan does what
\* the claim lists: a row is captured, a blank line and a separator row of
\* dashes leave the section open, a line without | is appended to the last
\* row (within 5 lines of it, with a keyword or within 2 lines) or closes
\* the section.
C25_ScanInSection ==
    (pc = "done" /\ inp.kind \in ExtractKinds) =>
        \A n \in DOMAIN InputLines(inp) :
            ScanUpTo(InputLines(inp), n - 1).in_table_section =>
                ScanUpTo(InputLines(inp), n) =
                    ClaimedInSection(ScanUpTo(InputLines(inp), n - 1),
                                     InputLines(inp)[n], n - 1)

\* the 1-based place of the first of the cells that holds one of keys and is
\* not taken; 0 when there is none
FirstCell(cells, keys, taken) ==
    IF \E n \in DOMAIN cells : n \notin taken /\ \E key \in keys : Contains(Lower(cells[n]), key)
    THEN CHOOSE n \in DOMAIN cells :
             /\ n \notin taken /\ \E key \in keys : Contains(Lower(cells[n]), key)
             /\ \A m \in 1..(n - 1) :
                    m \in taken \/ ~\E key \in keys : Contains(Lower(cells[m]), key)
    ELSE 0

TaskKeys == {<<"t","a","s","k">>}
AssignKeys == {<<"a","s","s","i","g","n">>}
HourKeys == {<<"h","o","u","r">>, <<"t","i","m","e">>, <<"e","s","t","i","m","a","t">>}
RiskKeys == {<<"r","i","s","k">>}
ReasonKeys == {<<"r","e","a","s","o","n">>, <<"t","r","a","c","e">>}

\* The columns of the claim: the fields take their cells in the order task,
\* assign, hours, risk, reasoning, and a cell that is the column of a field
\* is not the column of a later one
ClaimedAfterRisk(cells, t, a, h, r) ==
    [task_col |-> t, assignee_col |-> a, hours_col |-> h, risk_col |-> r,
     reasoning_col |-> FirstCell(cells, ReasonKeys, {t, a, h, r})]

ClaimedAfterHours(cells, t, a, h) ==
    ClaimedAfterRisk(cells, t, a, h, FirstCell(cells, RiskKeys, {t, a, h}))

ClaimedAfterAssignee(cells, t, a) ==
    ClaimedAfterHours(cells, t, a, FirstCell(cells, HourKeys, {t, a}))

ClaimedAfterTask(cells, t) ==
    ClaimedAfterAssignee(cells, t, FirstCell(cells, AssignKeys, {t}))

ClaimedColumns(cells) == ClaimedAfterTask(cells, FirstCell(cells, TaskKeys, {}))

\* C26: each of the five fields is read from the column of the first header
\* cell that holds its key, and a header cell that holds keys of several
\* fields is the column of the first of them only.
C26_FirstMatchColumns ==
    (pc = "done" /\ inp.kind \in {"table", "columns"}) =>
        ResolveColumns(Parts(InputLines(inp)[1])) =
            ClaimedColumns(Parts(InputLines(inp)[1]))

\* a line that is a new table row: it has | and a task-id pattern
IsNewRow(line) ==
    HasPipe(line) /\ \E p \in {<<"s","1","-","t">>, <<"s","2","-","t">>, <<"s","3","-","t">>,
                              <<"s","4","-","t">>, <<"s","5","-","t">>, <<"t","-">>} :
                         Contains(Lower(line), p)

\* every line of added is one of the 14 lines after line row (1-based) of
\* lines, and no new table row is at or before it after the row
AddedBeforeNextRow(added, lines, row) ==
    \A k \in DOMAIN added :
        \E m \in (row + 1)..(row + 14) :
            /\ m <= Len(lines)
            /\ added[k] = Strip(lines[m])
            /\ \A j \in (row + 1)..m : ~IsNewRow(lines[j])

\* the lines the re-scan adds to the row at line 2 of a text
AddedLines(lines) ==
    CollectReasoning(lines, 2, Min(1 + RescanSpan, Len(lines)), <<>>)

\* C27: the re-scan adds to the reasoning of a row lines from among the 14
\* lines after the row only, at most 5 of them, and none at or after the
\* next table row.
C27_RescanBounded ==
    (pc = "done" /\ inp.kind = "rescan" /\ df.rows # <<>>) =>
        /\ Len(AddedLines(InputLines(inp))) <= 5
        /\ AddedBeforeNextRow(AddedLines(InputLines(inp)), InputLines(inp), 2)
        /\ df.rows[1].Reasoning_Trace =
               WithReasoning(RowData(1)[5], AddedLines(InputLines(inp)))

\* C28: current_question is the empty string in every state of the session,
\* so Start Interview can be pressed exactly when the chat history is empty,
\* and every answer is saved with an empty question in its metadata.
C28_CurrentQuestionEmpty ==
    pc = "session" =>
        /\ session.current_question = <<>>
        /\ (ENABLED StartInterview) = (UserTurn /\ chat_history = <<>>)
        /\ op.name = "answer" => op.question = <<>>

\* The answer to a question that was asked is saved with no question
C28_AnswerSavedWithoutQuestion ==
    /\ op.name = "answer"
    /\ op.question = <<>>
    /\ Len(chat_history) = 2
    /\ chat_history[1] = [role |-> ASSISTANT, content |-> TheQuestion]
    /\ Len(store.project_context) = 1

C30_DerivedIdsFresh ==
    pc = "session" =>
        /\ \A k \in DOMAIN store.project_context :
               store.project_context[k].id = CONTEXT_ \o IntToStr(k - 1)
        /\ \A i, j \in DOMAIN store.resumes :
               store.resumes[i].id = store.resumes[j].id => i = j

\* Two add_resume calls, the second of two chunks, and two add_context calls
C30_TwoResumesTwoContexts ==
    /\ pc = "session"
    /\ Len(store.resumes) = 3
    /\ store.resumes[1].id = CANDIDATE_ \o IntToStr(0) \o CHUNK_ \o IntToStr(0)
    /\ store.resumes[2].id = CANDIDATE_ \o IntToStr(1) \o CHUNK_ \o IntToStr(0)
    /\ store.resumes[3].id = CANDIDATE_ \o IntToStr(1) \o CHUNK_ \o IntToStr(1)
    /\ Len(store.project_context) >= 2
===========================================================================
